---- MODULE Spec2Model ----
(***************************************************************************)
(* A model of ctop (src/ctop.c): the telemetry/delta engine (the parsers), *)
(* the process tracker and its ordering, the history rings and the layout  *)
(* of draw_screen.                                                         *)
(*                                                                         *)
(* Each parser of update_stats owns its own part of g_stats, so every      *)
(* specification below runs one parser (with the history_index step of     *)
(* update_stats) and leaves the state of the others untouched: SpecCpu and *)
(* SpecRing run parse_cpu_stats, SpecIo the network and disk parsers,      *)
(* SpecProc and SpecRank parse_processes, and SpecLayout draw_screen.      *)
(*                                                                         *)
(* Numbers.  C floats are modelled as exact rationals [n, d] (d > 0); the  *)
(* rounding of float arithmetic is not modelled.  unsigned long long       *)
(* arithmetic is modular; the modulus 2^64 is scaled to ULLONG_MOD so that *)
(* the values stay inside TLC's integers: a difference that is negative in *)
(* the integers becomes a value in the top half of the range, as in C.     *)
(***************************************************************************)
EXTENDS Integers, Sequences, FiniteSets, TLC

\* ---------------------------------------------------------------- bounds
\* largest tick count one field of a /proc/stat line takes in SpecCpu
MaxTick == 2
\* polls made in one behaviour of SpecCpu
MaxCpuPolls == 3
\* polls made in one behaviour of SpecRing (HISTORY_SIZE + k, k >= 0)
MaxRingPolls == 126
\* SpecRing: the busy ticks of poll p are p % (load + 1), load in 1..MaxLoad
MaxLoad == 3

\* polls made in one behaviour of SpecIo
MaxIoPolls == 2
\* largest byte count of an interface and sector count of a disk in SpecIo
MaxBytes == 2
MaxSectors == 1

\* the pids that may be alive in SpecProc are 1 .. MaxPid, and the polls
\* made in one behaviour
MaxPid == 2
MaxProcPolls == 4
\* the same for SpecRank
MaxRankPid == 3
MaxRankPolls == 2
MaxScanPid == 2
MaxScanPolls == 3
\* iterations of main's loop in one behaviour of SpecMain, SpecKeys,
\* SpecSelect and SpecFail, and the most processes /proc lists in SpecSelect
MaxMainIters == 3
MaxKeyIters == 5
MaxSelectProcs == 3
MaxSelectIters == 4
MaxFailIters == 3

\* the widest and the tallest terminal of SpecLayout
MaxTermW == 81
MaxTermH == 34
\* MemTotal of /proc/meminfo, in kB
MemTotalKb == 4

\* ------------------------------------------------------ program constants
HISTORY_SIZE == 120
MAX_CPU_CORES == 256
MAX_DISKS == 32

\* unsigned long long wraps modulo 2^64, scaled
ULLONG_MOD == 2 ^ 16
\* the two results the supported targets give for (int) of a float outside
\* the range of int
INT_MIN == (0 - 2 ^ 30) - 2 ^ 30
INT_MAX == (2 ^ 30 - 1) + 2 ^ 30

\* ---------------------------------------------------------------- floats
Rat(n, d) == [n |-> n, d |-> d]
Zero == Rat(0, 1)
REq(a, b) == a.n * b.d = b.n * a.d
RLt(a, b) == a.n * b.d < b.n * a.d
RLe(a, b) == a.n * b.d <= b.n * a.d
RGt(a, b) == RLt(b, a)
RIsZero(a) == a.n = 0
RAdd(a, b) == Rat(a.n * b.d + b.n * a.d, a.d * b.d)
RMul(a, b) == Rat(a.n * b.n, a.d * b.d)

\* x % y of C (truncating division) for y > 0
CRem(x, y) == IF x >= 0 THEN x % y ELSE -((-x) % y)

\* an unsigned long long holding v
ULL(v) == v % ULLONG_MOD
\* the value is one that only a wrapped subtraction produces
Wrapped(v) == v >= ULLONG_MOD \div 2

\* (int) f: truncation; outside the range of int the behaviour is undefined.
\* A float is outside the range exactly when the unsigned value `raw` it was
\* computed from is a wrapped one (2^64 scaled down leaves no room between
\* INT_MAX and the modulus, so the test is made on raw).
FloatToInt(f, raw) ==
    IF Wrapped(raw) THEN {INT_MIN, INT_MAX} ELSE {f.n \div f.d}

\* greatest common divisor, and a rational in lowest terms
RECURSIVE GCD(_, _)
GCD(a, b) == IF b = 0 THEN a ELSE GCD(b, a % b)
RNorm(r) ==
    LET g == GCD(IF r.n < 0 THEN -r.n ELSE r.n, r.d)
    IN  Rat(r.n \div g, r.d \div g)

\* --------------------------------------------------------------- state
VARIABLES
    overall,        \* g_stats.overall : CoreStat
    cores,          \* g_stats.cores[0 .. num_cores-1] : CoreStat
    num_cores,      \* g_stats.num_cores
    cpu_history,    \* g_stats.cpu_history
    history_index,  \* g_stats.history_index
    cpu_in,         \* the lines of /proc/stat read by the last poll
    cpu_before,     \* overall and cores as they were before the last poll
    cpu_polls,      \* number of polls made
    cpu_written,    \* every value stored in overall.history, oldest first
    load,           \* SpecRing: the workload of the machine
    g_elapsed_seconds,  \* g_elapsed_seconds
    prev_net_rx,    \* g_stats.prev_net_rx
    prev_net_tx,    \* g_stats.prev_net_tx
    net_rx_speed,   \* g_stats.net_rx_speed
    net_tx_speed,   \* g_stats.net_tx_speed
    net_history_rx, \* g_stats.net_history_rx
    net_history_tx, \* g_stats.net_history_tx
    disks,          \* g_stats.disks[0 .. num_disks-1], as a sequence
    io_in,          \* the lines of /proc/net/dev and /proc/diskstats read last
    io_before,      \* the counters retained before the last poll
    io_polls,       \* number of polls made
    processes,      \* g_stats.processes[0 .. process_count-1], as a sequence
    running_count,  \* g_stats.running_count
    g_sort_mode,    \* g_sort_mode
    g_clk_tck,      \* g_clk_tck
    total_mem,      \* g_stats.total_mem, as parse_meminfo left it
    proc_in,        \* the /proc directory read by the last poll
    proc_polls,     \* number of polls made
    fresh,          \* the pids the last scan listed and the scan before did not
    was_busy,       \* the pids that had a non-zero smoothed CPU% after a poll
    g_show_cpu,     \* g_show_cpu
    g_show_mem,     \* g_show_mem
    g_show_disks,   \* g_show_disks
    g_show_net,     \* g_show_net
    g_show_proc,    \* g_show_proc
    screen,         \* what the last draw_screen drew, and on which terminal
    g_scroll_offset,     \* g_scroll_offset
    g_refresh_rate_ms,   \* g_refresh_rate_ms
    g_running,           \* g_running
    g_selected_process,  \* g_selected_process
    term,           \* what tb_width and tb_height report, as [w, h]
    clock,          \* CLOCK_MONOTONIC, in milliseconds
    pc,             \* where main is
    last_update,    \* main: last_update
    prev_update,    \* main: prev_update
    in_error_mode,  \* main: in_error_mode
    now,            \* main: now
    time_until_update,   \* main: time_until_update
    ev,             \* main: ev, the event tb_peek_event gave
    need_redraw,    \* main: need_redraw
    pane_toggled,   \* main: pane_toggled
    sort_changed,   \* main: sort_changed
    config,         \* the configuration file
    calls,          \* the functions this iteration has called, in order
    shown_before,   \* the pane flags when this iteration began
    poll_clock,     \* the clock when update_stats last ran
    since_poll,     \* milliseconds from that run to the run of this iteration
    main_iters,     \* iterations of the loop begun
    sort_log,       \* the sort keys handled so far, each with g_sort_mode
                    \* before and after it
    unopened        \* the sources the last update_stats could not open

cpuVars == <<overall, cores, num_cores, cpu_history,
             cpu_in, cpu_before, cpu_polls, cpu_written, load>>
netVars == <<prev_net_rx, prev_net_tx, net_rx_speed, net_tx_speed,
             net_history_rx, net_history_tx, disks, io_in, io_before, io_polls>>
ioVars == <<g_elapsed_seconds, netVars>>
procVars == <<processes, running_count, g_sort_mode, g_clk_tck, total_mem,
              proc_in, proc_polls, fresh, was_busy>>

layoutVars == <<g_show_cpu, g_show_mem, g_show_disks, g_show_net,
                g_show_proc, screen, g_scroll_offset>>

loopVars == <<g_refresh_rate_ms, g_running, g_selected_process, clock,
              pc, last_update, prev_update, in_error_mode, now,
              time_until_update, ev, need_redraw, pane_toggled, sort_changed,
              config, calls, shown_before, poll_clock, since_poll,
              main_iters, sort_log, unopened>>
mainVars == <<term, loopVars>>

vars == <<history_index, cpuVars, ioVars, procVars, layoutVars, mainVars>>

\* ------------------------------------------------------- parse_cpu_stats
HistIdx == 0 .. HISTORY_SIZE - 1

\* A history array of HISTORY_SIZE cells is kept as the function of the cells
\* stored so far; g_stats is zero-initialised, so a cell never stored reads
\* as zero (0.0f in a float array, 0 in an int array).  NoHistory is the
\* array after initialisation.
NoHistory == <<>>
HistGet(h, i, zero) ==
    IF i \in DOMAIN h THEN h[i] ELSE IF i \in HistIdx THEN zero ELSE h[i]
HistSet(h, i, v) == [j \in DOMAIN h \cup {i} |-> IF j = i THEN v ELSE h[j]]

\* a zeroed CoreStat (g_stats = {0})
CoreStat0 ==
    [prev_total |-> 0, prev_idle |-> 0, percent |-> Zero,
     history |-> NoHistory, history_idx |-> 0]

Ticks(user, nice, system, idle, iowait, irq, softirq, steal) ==
    [user |-> user, nice |-> nice, system |-> system, idle |-> idle,
     iowait |-> iowait, irq |-> irq, softirq |-> softirq, steal |-> steal]

\* unsigned long long total = user + nice + ... + steal
TotalOf(t) ==
    ULL(t.user + t.nice + t.system + t.idle + t.iowait + t.irq + t.softirq
        + t.steal)

\* unsigned long long idle_time = idle + iowait
IdleOf(t) == ULL(t.idle + t.iowait)

\* core->percent after one line: recomputed when a previous total is stored
\* and the unsigned difference of the totals is positive
PercentAfter(core, total, idle_time) ==
    LET total_diff == ULL(total - core.prev_total)
        idle_diff == ULL(idle_time - core.prev_idle)
    IN  IF core.prev_total > 0 /\ total_diff > 0
        THEN Rat(ULL(total_diff - idle_diff) * 100, total_diff)
        ELSE core.percent

\* UpdateCore with the cursor advanced before the store instead of after it
UpdateCore_StoreAfterAdvance(core, t) ==
    LET total == TotalOf(t)
        idle_time == IdleOf(t)
        percent == PercentAfter(core, total, idle_time)
        idx == (core.history_idx + 1) % HISTORY_SIZE
    IN  [prev_total |-> total, prev_idle |-> idle_time, percent |-> percent,
         history |-> HistSet(core.history, idx, percent),
         history_idx |-> idx]

\* the body of the loop of parse_cpu_stats for one line of core `core`
UpdateCore(core, t) ==
    LET total == TotalOf(t)
        idle_time == IdleOf(t)
        percent == PercentAfter(core, total, idle_time)
    IN  [prev_total |-> total, prev_idle |-> idle_time, percent |-> percent,
         history |-> HistSet(core.history, core.history_idx, percent),
         history_idx |-> (core.history_idx + 1) % HISTORY_SIZE]

\* a line "cpu ..." (core = -1) or "cpuN ..." (core = N)
StatLine(core, t) == [core |-> core, ticks |-> t]

\* the state <<overall, cores, num_cores>> after the lines ls, in order
RECURSIVE AfterLines(_, _)
AfterLines(st, ls) ==
    IF ls = <<>> THEN st
    ELSE LET l == Head(ls)
             next ==
                 IF l.core = -1
                 THEN [st EXCEPT !.overall = UpdateCore(st.overall, l.ticks)]
                 ELSE IF l.core < MAX_CPU_CORES
                 THEN [st EXCEPT
                         !.cores =
                             IF l.core \in DOMAIN st.cores
                             THEN [st.cores EXCEPT
                                     ![l.core] = UpdateCore(@, l.ticks)]
                             ELSE st.cores
                                  @@ (l.core :> UpdateCore(CoreStat0,
                                                           l.ticks)),
                         !.num_cores = IF l.core >= st.num_cores
                                       THEN l.core + 1 ELSE st.num_cores]
                 ELSE st
         \* num_cores never goes down: the test only makes the state after
         \* this line be computed before the next line is read
         IN  IF next.num_cores >= st.num_cores
             THEN AfterLines(next, Tail(ls)) ELSE st

\* parse_cpu_stats on a /proc/stat holding the lines ls
ParseCpuStats(ls) ==
    LET st == AfterLines([overall |-> overall, cores |-> cores,
                          num_cores |-> num_cores], ls)
    IN  /\ overall' = st.overall
        /\ cores' = st.cores
        /\ num_cores' = st.num_cores
        /\ \E v \in FloatToInt(st.overall.percent,
                              IF Wrapped(st.overall.percent.d) THEN 0
                              ELSE st.overall.percent.n \div 100) :
               cpu_history' = HistSet(cpu_history, history_index, v)
        /\ cpu_in' = ls
        /\ cpu_before' = [overall |-> overall, cores |-> cores]
        /\ cpu_polls' = cpu_polls + 1
        /\ cpu_written' = Append(cpu_written, st.overall.percent)

\* update_stats, as far as the CPU state goes
UpdateStatsCpu(ls) ==
    /\ ParseCpuStats(ls)
    /\ history_index' = (history_index + 1) % HISTORY_SIZE

InitCpu ==
    /\ overall = CoreStat0
    /\ cores = <<>>
    /\ num_cores = 0
    /\ cpu_history = NoHistory
    /\ cpu_in = <<>>
    /\ cpu_before = [overall |-> CoreStat0, cores |-> <<>>]
    /\ cpu_polls = 0
    /\ cpu_written = <<>>

\* the /proc/stat of a machine with one core: the overall line and the line
\* of cpu0 carry the same counters.  The counters count from boot, so a line
\* never reads all zero; between two polls any field may have gone up or
\* down (the kernel lets iowait decrease, and a reset restarts the counts).
TickSamples ==
    { t \in { Ticks(u, 0, 0, i, w, 0, 0, s) :
                u \in 0 .. MaxTick, i \in 0 .. MaxTick,
                w \in 0 .. 1, s \in 0 .. 1 } :
        t.user + t.idle + t.iowait + t.steal > 0 }

StatFile(t) == <<StatLine(-1, t), StatLine(0, t)>>

\* ------------------------------------------------------- parse_net_stats
\* one interface line of /proc/net/dev as sscanf reads it: the three
\* variables it fills, and the number of fields it converted
NetLine(iface, rx_bytes, tx_bytes) ==
    [iface |-> iface, rx_bytes |-> rx_bytes, tx_bytes |-> tx_bytes,
     fields |-> 3]

\* a line whose counters do not parse: sscanf stops after the name, and
\* rx_bytes and tx_bytes are whatever the two uninitialised variables of the
\* loop body hold
MalformedNetLine(iface, rx_bytes, tx_bytes) ==
    [NetLine(iface, rx_bytes, tx_bytes) EXCEPT !.fields = 1]

\* total_rx and total_tx over the lines that are not the loopback's (the
\* result of sscanf is not looked at)
RECURSIVE NetTotals(_)
NetTotals(ls) ==
    IF ls = <<>> THEN [rx |-> 0, tx |-> 0]
    ELSE LET rest == NetTotals(Tail(ls))
             l == Head(ls)
         IN  IF l.iface = "lo:" THEN rest
             ELSE [rx |-> ULL(rest.rx + l.rx_bytes),
                   tx |-> ULL(rest.tx + l.tx_bytes)]

\* the two speeds after the poll: recomputed, from unsigned differences,
\* when a received total is retained from the previous poll
NetSpeeds(total) ==
    IF prev_net_rx > 0
    THEN [rx |-> Rat(ULL(total.rx - prev_net_rx), 1024),
          tx |-> Rat(ULL(total.tx - prev_net_tx), 1024)]
    ELSE [rx |-> net_rx_speed, tx |-> net_tx_speed]

\* (int)(speed / 100) of a speed Rat(bytes, 1024)
SpeedToInt(speed) == FloatToInt(Rat(speed.n, speed.d * 100), speed.n)

ParseNetStats(ls) ==
    LET total == NetTotals(ls)
        speed == NetSpeeds(total)
    IN  /\ net_rx_speed' = speed.rx
        /\ net_tx_speed' = speed.tx
        /\ \E v \in SpeedToInt(speed.rx) :
               net_history_rx' = HistSet(net_history_rx, history_index, v)
        /\ \E v \in SpeedToInt(speed.tx) :
               net_history_tx' = HistSet(net_history_tx, history_index, v)
        /\ prev_net_rx' = total.rx
        /\ prev_net_tx' = total.tx

\* ------------------------------------------------------ parse_disk_stats
\* one line of /proc/diskstats with the sector size get_sector_size finds,
\* and the number of fields sscanf converted
DiskLine(name, read_sectors, write_sectors, sector_size) ==
    [name |-> name, read_sectors |-> read_sectors,
     write_sectors |-> write_sectors, sector_size |-> sector_size,
     fields |-> 3]

\* a line whose sector counts do not parse
MalformedDiskLine(name) == [DiskLine(name, 0, 0, 512) EXCEPT !.fields = 1]

\* names starting with "loop", "ram" or "dm-"
VirtualNames == {"loop0", "ram0", "dm-0"}

\* index of the first retained disk called name, 0 when there is none
MatchDisk(name) ==
    LET hits == { i \in 1 .. Len(disks) : disks[i].name = name }
    IN  IF hits = {} THEN 0 ELSE CHOOSE i \in hits : \A j \in hits : i <= j

\* new_disks[new_disk_count] for a line l, before its history cell is stored
NewDisk(l) ==
    LET i == MatchDisk(l.name)
    IN  IF i = 0
        THEN [name |-> l.name,
              read_sectors |-> l.read_sectors,
              write_sectors |-> l.write_sectors,
              read_speed |-> Zero, write_speed |-> Zero,
              history_rx |-> NoHistory,
              history_tx |-> NoHistory]
        ELSE LET read_diff ==
                     ULL(ULL(l.read_sectors - disks[i].read_sectors)
                         * l.sector_size)
                 write_diff ==
                     ULL(ULL(l.write_sectors - disks[i].write_sectors)
                         * l.sector_size)
             IN  [name |-> l.name,
                  read_sectors |-> l.read_sectors,
                  write_sectors |-> l.write_sectors,
                  read_speed |-> Rat(read_diff, 1024),
                  write_speed |-> Rat(write_diff, 1024),
                  history_rx |-> disks[i].history_rx,
                  history_tx |-> disks[i].history_tx]

\* new_disks after the lines ls, acc being the entries made so far
RECURSIVE NewDisks(_, _)
NewDisks(ls, acc) ==
    IF ls = <<>> \/ Len(acc) >= MAX_DISKS THEN acc
    ELSE IF Head(ls).fields # 3 \/ Head(ls).name \in VirtualNames
    THEN NewDisks(Tail(ls), acc)
    ELSE NewDisks(Tail(ls), Append(acc, NewDisk(Head(ls))))

\* the values (int)(speed / 100) may store for each entry of new, rd telling
\* whether the read or the write speed is meant
HistoryCells(new, rd) ==
    LET cell(i) == SpeedToInt(IF rd THEN new[i].read_speed
                              ELSE new[i].write_speed)
    IN  { f \in [1 .. Len(new) -> UNION { cell(i) : i \in 1 .. Len(new) }] :
            \A i \in 1 .. Len(new) : f[i] \in cell(i) }

ParseDiskStats(ls) ==
    LET new == NewDisks(ls, <<>>)
    IN  \E hr \in HistoryCells(new, TRUE), hw \in HistoryCells(new, FALSE) :
          disks' = [i \in 1 .. Len(new) |->
                      [new[i] EXCEPT
                         !.history_rx = HistSet(@, history_index, hr[i]),
                         !.history_tx = HistSet(@, history_index, hw[i])]]

\* ------------------------------------------------------------- main, I/O
\* g_elapsed_seconds for dt milliseconds since the previous update
Elapsed(dt) == IF dt <= 0 THEN Rat(1, 1) ELSE RNorm(Rat(dt, 1000))

\* update_stats, as far as the network and disk state goes, as main calls
\* it dt milliseconds after the previous update
UpdateStatsIo(dt, net, dsk) ==
    /\ g_elapsed_seconds' = Elapsed(dt)
    /\ ParseNetStats(net)
    /\ ParseDiskStats(dsk)
    /\ history_index' = (history_index + 1) % HISTORY_SIZE
    /\ io_in' = [net |-> net, dsk |-> dsk]
    /\ io_before' = [prev_net_rx |-> prev_net_rx, prev_net_tx |-> prev_net_tx,
                     net_rx_speed |-> net_rx_speed,
                     net_tx_speed |-> net_tx_speed, disks |-> disks]
    /\ io_polls' = io_polls + 1

InitIo ==
    /\ g_elapsed_seconds = Rat(1, 1)
    /\ prev_net_rx = 0
    /\ prev_net_tx = 0
    /\ net_rx_speed = Zero
    /\ net_tx_speed = Zero
    /\ net_history_rx = NoHistory
    /\ net_history_tx = NoHistory
    /\ disks = <<>>
    /\ io_in = [net |-> <<>>, dsk |-> <<>>]
    /\ io_before = [prev_net_rx |-> 0, prev_net_tx |-> 0,
                    net_rx_speed |-> Zero, net_tx_speed |-> Zero,
                    disks |-> <<>>]
    /\ io_polls = 0

\* the loopback and one interface; a loop device and at most one disk.  The
\* interface has received traffic since boot (parse_net_stats takes a
\* retained total of 0 to mean that no poll was made yet); a counter may
\* read lower than before (wrap, device reset).  A file may hold a line
\* that does not parse.
NetFiles ==
    { <<NetLine("lo:", 1, 1), NetLine("eth0:", r, t)>> :
        r \in 1 .. MaxBytes, t \in 0 .. MaxBytes }
    \cup { <<NetLine("lo:", 1, 1), NetLine("eth0:", 1, 1),
             MalformedNetLine("eth1:", j, j)>> : j \in 0 .. MaxBytes }
DiskFiles ==
    { <<DiskLine("loop0", 1, 1, 512)>> }
    \cup { <<DiskLine("loop0", 1, 1, 512), DiskLine("sda", r, w, 512)>> :
             r \in 0 .. MaxSectors, w \in 0 .. MaxSectors }
    \cup { <<MalformedDiskLine("sdb"), DiskLine("sda", 1, 1, 512)>> }
\* milliseconds between two updates: main updates at once after a key, and
\* otherwise when the refresh interval has passed
ElapsedMs == {0, 500, 1000, 2000}

\* ------------------------------------------------------ compare_processes
SORT_CPU_LAZY == 0
SORT_CPU_DIRECT == 1
SORT_MEM == 2
SORT_PID == 3
SORT_NAME == 4
SORT_MAX == 5
MAX_PROCESSES == 512
REFRESH_RATE_MS == 1000
\* sysconf(_SC_CLK_TCK); Linux answers 100, which is also the fallback
SC_CLK_TCK == 100

\* A name is the sequence of its character codes, without the final NUL.
\* tolower in the C locale
ToLower(c) == IF c \in 65 .. 90 THEN c + 32 ELSE c

\* strcasecmp: the difference of the first two bytes that differ after
\* tolower
RECURSIVE Strcasecmp(_, _)
Strcasecmp(s, t) ==
    LET c1 == IF s = <<>> THEN 0 ELSE ToLower(Head(s))
        c2 == IF t = <<>> THEN 0 ELSE ToLower(Head(t))
    IN  IF c1 # c2 THEN c1 - c2
        ELSE IF c1 = 0 THEN 0
        ELSE Strcasecmp(Tail(s), Tail(t))

\* the secondary sort by pid at the end of compare_processes
ComparePid(pa, pb) ==
    IF pa.pid > pb.pid THEN 1 ELSE IF pa.pid < pb.pid THEN -1 ELSE 0

\* compare_processes under the current g_sort_mode; SORT_NAME returns from
\* inside the switch
CompareProcesses(pa, pb) ==
    CASE g_sort_mode = SORT_CPU_DIRECT ->
            IF RGt(pb.cpu_percent, pa.cpu_percent) THEN 1
            ELSE IF RLt(pb.cpu_percent, pa.cpu_percent) THEN -1
            ELSE ComparePid(pa, pb)
      [] g_sort_mode = SORT_CPU_LAZY ->
            IF RGt(pb.cpu_percent_lazy, pa.cpu_percent_lazy) THEN 1
            ELSE IF RLt(pb.cpu_percent_lazy, pa.cpu_percent_lazy) THEN -1
            ELSE ComparePid(pa, pb)
      [] g_sort_mode = SORT_MEM ->
            IF pb.mem_rss > pa.mem_rss THEN 1
            ELSE IF pb.mem_rss < pa.mem_rss THEN -1
            ELSE ComparePid(pa, pb)
      [] g_sort_mode = SORT_PID -> ComparePid(pa, pb)
      [] g_sort_mode = SORT_NAME -> Strcasecmp(pa.name, pb.name)
      [] OTHER -> ComparePid(pa, pb)

\* the array left in the order of the scan
Qsort_ScanOrder(base) == { base }

\* qsort(base, n, size, compare_processes): the result is a rearrangement of
\* base in which no element compares greater than a later one.  C leaves the
\* order of elements that compare equal unspecified, so every such
\* rearrangement is a result.
Qsort(base) ==
    LET n == Len(base)
        Rearrangements ==
            { f \in [1 .. n -> 1 .. n] :
                \A i, j \in 1 .. n : i # j => f[i] # f[j] }
    IN  { s \in { [i \in 1 .. n |-> base[f[i]]] : f \in Rearrangements } :
            \A i, j \in 1 .. n :
                i < j => CompareProcesses(s[i], s[j]) <= 0 }

\* -------------------------------------------------------- parse_processes
\* memset(proc, 0, sizeof(ProcessInfo))
ProcessInfo0 ==
    [pid |-> 0, name |-> <<>>, state |-> "", mem_rss |-> 0,
     mem_percent |-> Zero, cpu_percent |-> Zero, cpu_percent_lazy |-> Zero,
     prev_utime |-> 0, prev_stime |-> 0, user |-> "", cmdline |-> <<>>]

\* the owner of the processes started by the machine's user
USER_UID == 1000

\* what the files of /proc/<pid> give when all three can be read: comm,
\* state, utime and stime of stat, VmRSS and Uid of status, and a cmdline
\* holding the program's name and the NUL that ends an argument
ProcEntry(pid, name, state, VmRSS, utime, stime) ==
    [pid |-> pid, name |-> name, state |-> state, VmRSS |-> VmRSS,
     utime |-> utime, stime |-> stime, Uid |-> USER_UID,
     cmdline |-> <<47>> \o name \o <<0>>,
     stat_read |-> TRUE, status_opened |-> TRUE, cmdline_opened |-> TRUE]

\* the same /proc/<pid> with one file gone: stat that fopen or fgets fails
\* on, status that fopen fails on, cmdline that fopen fails on
StatUnread(e) == [e EXCEPT !.stat_read = FALSE]
StatusUnopened(e) == [e EXCEPT !.status_opened = FALSE]
CmdlineUnopened(e) == [e EXCEPT !.cmdline_opened = FALSE]

\* get_username on a machine whose passwd file names uid 0 and USER_UID
GetUsername(uid) ==
    IF uid = 0 THEN "root" ELSE IF uid = USER_UID THEN "user" ELSE "uid"

\* the bytes fread gave, each NUL turned into a space
NulToSpace(text) == [i \in DOMAIN text |-> IF text[i] = 0 THEN 32 ELSE text[i]]

\* the slot after the files are read: zeroed, then filled from stat, from
\* status if it opens (mem_rss and uid stay 0 if not), and from cmdline if
\* it opens; an empty cmdline is replaced by the name
FromFiles(e) ==
    LET mem_rss == IF e.status_opened THEN e.VmRSS ELSE 0
        uid == IF e.status_opened THEN e.Uid ELSE 0
        text == IF e.cmdline_opened THEN NulToSpace(e.cmdline) ELSE <<>>
    IN  [ProcessInfo0 EXCEPT
            !.pid = e.pid, !.name = e.name, !.state = e.state,
            !.mem_rss = mem_rss,
            !.user = GetUsername(uid),
            !.cmdline = IF text = <<>> THEN e.name ELSE text,
            !.mem_percent = IF total_mem' > 0
                            THEN RNorm(Rat(mem_rss * 100, total_mem'))
                            ELSE Zero,
            !.prev_utime = e.utime, !.prev_stime = e.stime]

\* the index in prev_procs of the first entry with this pid, 0 if none
FindPrev(prev_procs, pid) ==
    IF \E j \in DOMAIN prev_procs : prev_procs[j].pid = pid
    THEN CHOOSE j \in DOMAIN prev_procs :
            /\ prev_procs[j].pid = pid
            /\ \A k \in 1 .. j - 1 : prev_procs[k].pid # pid
    ELSE 0

\* g_clk_tck as the delta computation leaves it
ClkTck == IF g_clk_tck <= 0 THEN SC_CLK_TCK ELSE g_clk_tck

\* cpu_raw, from the g_elapsed_seconds main has set for this update and the
\* num_cores parse_cpu_stats has left
CpuRaw(delta_total) ==
    IF num_cores' > 0 /\ RGt(g_elapsed_seconds', Zero)
    THEN RNorm(Rat(delta_total * 100 * g_elapsed_seconds'.d,
                   ClkTck * g_elapsed_seconds'.n * num_cores'))
    ELSE Zero

\* the exponential moving average, from the value cpu_percent_lazy holds
LazyAfter(cpu_percent_lazy, cpu_raw) ==
    IF RGt(cpu_percent_lazy, Zero) \/ RGt(cpu_raw, Zero)
    THEN RNorm(RAdd(RMul(cpu_percent_lazy, Rat(7, 10)),
                    RMul(cpu_raw, Rat(3, 10))))
    ELSE cpu_raw

\* the entry with the CPU delta taken against zeroed tick counts when the
\* pid has no previous sample
NewProcess_DeltaFromZero(e, prev_procs) ==
    LET j == FindPrev(prev_procs, e.pid)
        prev == IF j = 0 THEN ProcessInfo0 ELSE prev_procs[j]
        delta_total == (e.utime - prev.prev_utime) + (e.stime - prev.prev_stime)
        cpu_raw == CpuRaw(delta_total)
    IN  [FromFiles(e) EXCEPT
            !.cpu_percent = cpu_raw,
            !.cpu_percent_lazy = LazyAfter(@, cpu_raw)]

\* the body of the scan loop for one /proc/<pid>: the slot is zeroed, filled
\* from the files, and given its CPU figures from the entry of the same pid
\* in prev_procs, if there is one
NewProcess(e, prev_procs) ==
    LET j == FindPrev(prev_procs, e.pid)
        delta_utime == e.utime - prev_procs[j].prev_utime
        delta_stime == e.stime - prev_procs[j].prev_stime
        delta_total == delta_utime + delta_stime
        cpu_raw == CpuRaw(delta_total)
    IN  [FromFiles(e) EXCEPT
            !.cpu_percent = IF j = 0 THEN Zero ELSE cpu_raw,
            !.cpu_percent_lazy = IF j = 0 THEN @ ELSE LazyAfter(@, cpu_raw)]

\* the scan loop over the entries readdir gives, up to MAX_PROCESSES slots;
\* an entry whose stat is not read takes no slot
RECURSIVE ScanEntries(_, _, _)
ScanEntries(entries, prev_procs, acc) ==
    IF entries = <<>> \/ Len(acc) >= MAX_PROCESSES THEN acc
    ELSE IF ~Head(entries).stat_read
    THEN ScanEntries(Tail(entries), prev_procs, acc)
    ELSE ScanEntries(Tail(entries), prev_procs,
                     Append(acc, NewProcess(Head(entries), prev_procs)))

\* parse_processes on a /proc that opendir could open or not
ParseProcesses(dir) ==
    IF ~dir.opened
    THEN UNCHANGED <<processes, running_count, g_clk_tck>>
    ELSE \E scanned \in { ScanEntries(dir.entries, processes, <<>>) } :
             /\ processes' \in Qsort(scanned)
             /\ running_count' =
                    Cardinality({ i \in DOMAIN scanned :
                                    scanned[i].state = "R" })
             /\ g_clk_tck' =
                    IF \E i \in DOMAIN scanned :
                           FindPrev(processes, scanned[i].pid) # 0
                    THEN ClkTck ELSE g_clk_tck

PidsOf(procs) == { procs[i].pid : i \in DOMAIN procs }

\* main: dt milliseconds after the previous update it sets
\* g_elapsed_seconds and calls update_stats, whose parse_processes reads dir
\* (SpecRank polls once every refresh interval)
ProcUpdate(dt, dir) ==
    /\ g_elapsed_seconds' = Elapsed(dt)
    /\ ParseProcesses(dir)
    /\ proc_in' = dir
    /\ proc_polls' = proc_polls + 1
    /\ fresh' = IF dir.opened THEN PidsOf(processes') \ PidsOf(processes)
                ELSE fresh
    /\ was_busy' = was_busy \cup
           { processes'[i].pid : i \in
               { k \in DOMAIN processes' :
                   ~RIsZero(processes'[k].cpu_percent_lazy) } }
    /\ UNCHANGED g_sort_mode

\* the same on a machine whose /proc/meminfo gives the MemTotal already read
UpdateStatsProc(dt, dir) ==
    /\ UNCHANGED total_mem
    /\ ProcUpdate(dt, dir)

InitProc ==
    /\ processes = <<>>
    /\ running_count = 0
    /\ g_sort_mode = SORT_CPU_LAZY
    /\ g_clk_tck = 0
    /\ total_mem = 0
    /\ proc_in = [opened |-> FALSE, entries |-> <<>>]
    /\ proc_polls = 0
    /\ fresh = {}
    /\ was_busy = {}

\* The /proc directories of the process specifications: the pids that may
\* be alive are 1 .. max_pid, and readdir gives the living ones in ascending
\* order.  Each listed pid reads as one of a set of samples.
RECURSIVE Listing(_, _, _)
Listing(g, pid, max_pid) ==
    IF pid > max_pid THEN <<>>
    ELSE (IF pid \in DOMAIN g
          THEN <<[g[pid] EXCEPT !.pid = pid]>>
          ELSE <<>>) \o Listing(g, pid + 1, max_pid)
ProcDirs(Samples, max_pid) ==
    { [opened |-> FALSE, entries |-> <<>>] }
    \cup { [opened |-> TRUE, entries |-> Listing(g, 1, max_pid)] :
             g \in UNION { [S -> Samples] : S \in SUBSET (1 .. max_pid) } }

\* SpecProc: one program "a" whose utime and stime go up, stay, or come back
\* lower (a pid taken by a new process)
TickPairs == { <<0, 0>>, <<1, 0>>, <<1, 1>>, <<2, 1>> }
TrackSamples ==
    { ProcEntry(0, <<97>>, "R", 1, t[1], t[2]) : t \in TickPairs }

\* SpecProc: an update comes one refresh interval after the last, or two
ProcElapsedMs == { REFRESH_RATE_MS, 2 * REFRESH_RATE_MS }

\* SpecRank: the programs "a", "B" and "b", with equal and different
\* resident sizes, idle or having used a tick
RankSamples ==
    { ProcEntry(0, <<97>>, "S", 1, 0, 0), ProcEntry(0, <<97>>, "R", 1, 1, 0),
      ProcEntry(0, <<66>>, "R", 2, 1, 0), ProcEntry(0, <<98>>, "S", 2, 0, 0) }

\* SpecScan: the program "a", with all its files read or one of them gone
ScanSamples ==
    LET e == ProcEntry(0, <<97>>, "S", 1, 1, 0)
    IN  { e, StatUnread(e), StatusUnopened(e), CmdlineUnopened(e) }

\* ------------------------------------------------- calculate_minimum_size
\* the minimum terminal size for the current pane flags, as [min_w, min_h]
CalculateMinimumSize_ThreeRowPanes ==
    LET num_left_panes == g_show_mem + g_show_disks + g_show_net
        bottom == num_left_panes > 0 \/ g_show_proc # 0
        left_panes_h == num_left_panes * 3
        proc_h == IF g_show_proc # 0 THEN 6 ELSE 0
        bottom_h == IF left_panes_h > proc_h THEN left_panes_h ELSE proc_h
        content_h == (IF g_show_cpu # 0 THEN 5 ELSE 0)
                     + (IF ~bottom THEN 0
                        ELSE IF bottom_h < 6 THEN 6 ELSE bottom_h)
        required_width == (IF num_left_panes > 0 THEN 20 ELSE 0)
                          + (IF g_show_proc # 0 THEN 45 ELSE 0) + 4
    IN  [min_w |-> IF bottom /\ required_width > 80 THEN required_width
                   ELSE 80,
         min_h |-> IF 2 + content_h < 10 THEN 10 ELSE 2 + content_h]

CalculateMinimumSize ==
    LET num_left_panes == g_show_mem + g_show_disks + g_show_net
        bottom == num_left_panes > 0 \/ g_show_proc # 0
        left_panes_h == num_left_panes * 4
        proc_h == IF g_show_proc # 0 THEN 6 ELSE 0
        bottom_h == IF left_panes_h > proc_h THEN left_panes_h ELSE proc_h
        content_h == (IF g_show_cpu # 0 THEN 5 ELSE 0)
                     + (IF ~bottom THEN 0
                        ELSE IF bottom_h < 6 THEN 6 ELSE bottom_h)
        required_width == (IF num_left_panes > 0 THEN 20 ELSE 0)
                          + (IF g_show_proc # 0 THEN 45 ELSE 0) + 4
    IN  [min_w |-> IF bottom /\ required_width > 80 THEN required_width
                   ELSE 80,
         min_h |-> IF 2 + content_h < 10 THEN 10 ELSE 2 + content_h]

\* ------------------------------------------------------- draw_cpu_section
\* core_label_width: "C" and the digits of the largest core number
CoreLabelWidth == IF num_cores >= 100 THEN 4 ELSE IF num_cores >= 10 THEN 3 ELSE 2

\* rows of the history graph in a pane of h rows
GraphH(h) == IF h > 8 THEN 2 ELSE 1

\* available_core_rows: the rows between the graph and the last row of the
\* pane
AvailableCoreRows(h) == (h - 1) - (1 + GraphH(h))

\* the item of core i: its first column and row, its columns and its rows
CoreCell(i, cx, cy, w, h) == [core |-> i, x |-> cx, y |-> cy, w |-> w, h |-> h]

\* the loop over test_cores_per_row, from `test` down: best_cores_per_row
\* when it ends
RECURSIVE BestCoresPerRow(_, _, _, _)
BestCoresPerRow(test, best_cores_per_row, best_rows, available_core_rows) ==
    IF test < 1 THEN best_cores_per_row
    ELSE LET rows_needed == (num_cores + test - 1) \div test
             cores_in_last_row == num_cores - (rows_needed - 1) * test
         IN  IF rows_needed * 2 > available_core_rows THEN best_cores_per_row
             ELSE IF cores_in_last_row = test THEN test
             ELSE IF best_rows # rows_needed
                     /\ rows_needed <= available_core_rows \div 2
             THEN BestCoresPerRow(test - 1, test, rows_needed,
                                  available_core_rows)
             ELSE BestCoresPerRow(test - 1, best_cores_per_row, best_rows,
                                  available_core_rows)

\* CoresPerRow without the search: the most cores a row can take
CoresPerRow_WidestFit(w, available_core_rows) ==
    LET fit == (w - 2) \div (CoreLabelWidth + 12)
    IN  IF fit < 1 THEN 1 ELSE fit

\* cores_per_row of the two-line display in a pane of w columns with
\* available_core_rows rows for the cores
CoresPerRow(w, available_core_rows) ==
    LET fit == (w - 2) \div (CoreLabelWidth + 12)
        max_cores_per_row == IF fit < 1 THEN 1 ELSE fit
        min_rows_needed ==
            (num_cores + max_cores_per_row - 1) \div max_cores_per_row
    IN  BestCoresPerRow(max_cores_per_row, max_cores_per_row,
                        min_rows_needed, available_core_rows)

\* the items of the two-line display: the loop runs over the cores in order
\* and stops at the first whose second row is not above the pane's last row
\* (rows never go up with i, so the cores before that one are the cores that
\* pass the test)
TwoLineCells(x, core_start_y, last_y, w) ==
    LET two_line_item_width == CoreLabelWidth + 12
        cores_per_row == CoresPerRow(w, last_y - core_start_y)
        share == (w - 2) \div cores_per_row
        actual_item_width ==
            IF share < two_line_item_width THEN two_line_item_width ELSE share
        cy1(i) == core_start_y + (i \div cores_per_row) * 2
        shown == { i \in 0 .. num_cores - 1 :
                     i < MAX_CPU_CORES /\ cy1(i) + 1 < last_y }
    IN  { CoreCell(i, x + (i % cores_per_row) * actual_item_width, cy1(i),
                   actual_item_width, 2) : i \in shown }

\* SingleLineCells with the items of a row one column closer than they are
\* wide
SingleLineCells_CloseColumns(x, core_start_y, last_y, w) ==
    LET single_line_item_width == CoreLabelWidth + 6
        fit == (w - 2) \div single_line_item_width
        cores_per_row == IF fit < 1 THEN 1 ELSE fit
        room == cores_per_row * (last_y - core_start_y)
        max_cores_display == IF room > num_cores THEN num_cores ELSE room
        cy(i) == core_start_y + (i \div cores_per_row)
        shown == { i \in 0 .. max_cores_display - 1 :
                     i < MAX_CPU_CORES /\ cy(i) < last_y }
    IN  { CoreCell(i, x + (i % cores_per_row) * (single_line_item_width - 1),
                   cy(i), single_line_item_width, 1) : i \in shown }

\* the items of the single-line display: at most max_cores_display cores,
\* and the loop stops at the first whose row is not above the pane's last
SingleLineCells(x, core_start_y, last_y, w) ==
    LET single_line_item_width == CoreLabelWidth + 6
        fit == (w - 2) \div single_line_item_width
        cores_per_row == IF fit < 1 THEN 1 ELSE fit
        room == cores_per_row * (last_y - core_start_y)
        max_cores_display == IF room > num_cores THEN num_cores ELSE room
        cy(i) == core_start_y + (i \div cores_per_row)
        shown == { i \in 0 .. max_cores_display - 1 :
                     i < MAX_CPU_CORES /\ cy(i) < last_y }
    IN  { CoreCell(i, x + (i % cores_per_row) * single_line_item_width,
                   cy(i), single_line_item_width, 1) : i \in shown }

\* use_two_line: every core fits at two rows each with the most cores a row
\* can take
UseTwoLine(w, h) ==
    LET fit == (w - 2) \div (CoreLabelWidth + 12)
        max_cores_per_row == IF fit < 1 THEN 1 ELSE fit
        min_rows_needed ==
            (num_cores + max_cores_per_row - 1) \div max_cores_per_row
    IN  AvailableCoreRows(h) >= min_rows_needed * 2

\* the per-core items draw_cpu_section(x, y, w, h) draws
CoreCells(x, y, w, h) ==
    LET core_start_y == y + 1 + GraphH(h)
    IN  IF h < 4 \/ core_start_y >= y + h - 1 THEN {}
        ELSE IF UseTwoLine(w, h)
        THEN TwoLineCells(x, core_start_y, y + h - 1, w)
        ELSE SingleLineCells(x, core_start_y, y + h - 1, w)

\* ------------------------------------------------- the history reads
\* a call draw_graph or draw_sparkline_horizontal (..., w, ..., data, idx):
\* the series read, the core for a per-core series, the width and the cursor
GraphRead(series, core, w, idx) ==
    [series |-> series, core |-> core, w |-> w, idx |-> idx]

\* the values data_idx takes in the loop of draw_graph and of
\* draw_sparkline_horizontal
DrawGraphIndices(idx, w) ==
    LET idx_start == CRem(idx - w + HISTORY_SIZE, HISTORY_SIZE)
    IN  { CRem(idx_start + col, HISTORY_SIZE) :
            col \in { c \in 0 .. w - 1 : c < HISTORY_SIZE } }

\* the history reads of draw_cpu_section(x, y, w, h): the graph of the
\* overall series, and in the two-line display the sparkline of every core
\* drawn
CpuGraphs(x, y, w, h) ==
    LET graph_w == IF w - 2 > 60 THEN 60 ELSE w - 2
        core_start_y == y + 1 + GraphH(h)
    IN  IF h < 4 THEN {}
        ELSE {GraphRead("overall", -1, graph_w, overall.history_idx)}
             \cup (IF core_start_y >= y + h - 1 \/ ~UseTwoLine(w, h) THEN {}
                   ELSE { GraphRead("core", a.core, a.w - 2,
                                    cores[a.core].history_idx) :
                            a \in TwoLineCells(x, core_start_y, y + h - 1,
                                               w) })

\* the history read of draw_memory_section: the graph is drawn if a row is
\* left above the last after the four lines of figures (three if h <= 6)
MemGraphs(w, h) ==
    LET figures == IF h > 6 THEN 4 ELSE 3
        lines == IF h - 3 < figures THEN h - 3 ELSE figures
    IN  IF h >= 4 /\ 2 + lines < h - 1
        THEN {GraphRead("mem", -1, w - 2, history_index)}
        ELSE {}

\* the history reads of draw_disk_section: disk i is drawn while line is
\* above max_line - 1, its graph if three more rows are above max_line
DiskGraphs(w, h) ==
    LET disks_per_row == IF w > 60 THEN 2 ELSE 1
        disk_width == (w - 2) \div disks_per_row
        graph_w == IF disk_width - 2 > 30 THEN 30 ELSE disk_width - 2
        line(i) == 2 + (i \div disks_per_row) * 6
    IN  IF h < 4 THEN {}
        ELSE { GraphRead("disk", i, graph_w, history_index) :
                 i \in { k \in 0 .. Len(disks) - 1 :
                           /\ line(k) < h - 2
                           /\ line(k) + 3 < h - 1
                           /\ disk_width > 15 } }

\* the history reads of draw_net_section: the download graph and the
\* upload graph
NetGraphs(w, h) ==
    LET down_h == IF h - 6 > 2 THEN 2 ELSE h - 6
        down == 3 + 1 < h - 1 /\ h > 5 /\ down_h > 0
        up_line == 3 + (IF down THEN down_h ELSE 0) + 1
    IN  IF h < 4 THEN {}
        ELSE (IF down
              THEN {GraphRead("net_rx", -1, w - 2, history_index)} ELSE {})
             \cup (IF up_line < h - 1 /\ h > 6
                   THEN {GraphRead("net_tx", -1, w - 2, history_index)}
                   ELSE {})

\* ------------------------------------------------------------ draw_screen
\* a call draw_<pane>_section(x, y, w, h) or draw_process_list(x, y, w, h);
\* body tells whether the drawer gets past its early returns for this height
\* and draws the body of the pane; cells are the per-core items of the CPU
\* pane, two_line and cores_per_row the display draw_cpu_section chose for
\* them (0 when it is not the two-line one), graphs the history reads
DrawerBody(pane, h) ==
    CASE pane = "cpu" ->
            LET graph_h == IF h > 8 THEN 2 ELSE 1
            IN  h >= 4 /\ 1 + graph_h < h - 1
      [] pane = "proc" -> h >= 5
      [] OTHER -> h >= 4
\* get_sort_name: the name of the current sort mode
GetSortName ==
    CASE g_sort_mode = SORT_CPU_LAZY -> "CPU-L"
      [] g_sort_mode = SORT_CPU_DIRECT -> "CPU-D"
      [] g_sort_mode = SORT_MEM -> "Mem"
      [] g_sort_mode = SORT_PID -> "PID"
      [] g_sort_mode = SORT_NAME -> "Name"
      [] OTHER -> "CPU-L"

\* draw_process_list's scroll handling for a pane of h rows: the value it
\* leaves in g_scroll_offset
ScrollOffset(h) ==
    LET list_height == h - 3
    IN  IF h < 5 THEN g_scroll_offset
        ELSE IF g_selected_process < g_scroll_offset
        THEN g_selected_process
        ELSE IF g_selected_process >= g_scroll_offset + list_height
        THEN g_selected_process - list_height + 1
        ELSE g_scroll_offset

\* the indices idx of the entries g_stats.processes[idx] that the row loop of
\* draw_process_list reads (row < max_line is i < list_height)
ProcRows(h) ==
    LET list_height == h - 3
        process_count == Len(processes)
    IN  IF h < 5 THEN {}
        ELSE { ScrollOffset(h) + i :
                 i \in { j \in 0 .. list_height - 1 :
                            ScrollOffset(h) + j < process_count } }

DrawCall(pane, x, y, w, h) ==
    [pane |-> pane, x |-> x, y |-> y, w |-> w, h |-> h,
     body |-> DrawerBody(pane, h),
     rows |-> IF pane = "proc" THEN ProcRows(h) ELSE {},
     sort_name |-> IF pane = "proc" /\ h >= 5 THEN GetSortName ELSE "",
     cells |-> IF pane = "cpu" THEN CoreCells(x, y, w, h) ELSE {},
     two_line |-> pane = "cpu" /\ DrawerBody(pane, h) /\ UseTwoLine(w, h),
     cores_per_row |->
        IF pane = "cpu" /\ DrawerBody(pane, h) /\ UseTwoLine(w, h)
        THEN CoresPerRow(w, AvailableCoreRows(h)) ELSE 0,
     graphs |-> CASE pane = "cpu" -> CpuGraphs(x, y, w, h)
                  [] pane = "mem" -> MemGraphs(w, h)
                  [] pane = "disk" -> DiskGraphs(w, h)
                  [] pane = "net" -> NetGraphs(w, h)
                  [] OTHER -> {}]

\* Heights with the extra rows counted from the CPU pane's base height alone
Heights_ExtraAboveCpuBase(h) ==
    LET available_height == h - 1 - 1
        side == g_show_mem # 0 \/ g_show_disks # 0 \/ g_show_net # 0
        needed_for_bottom == 10 + (IF side THEN 3 ELSE 0)
        extra == available_height - 5
        grown == IF 5 + extra \div 4 > available_height \div 3
                 THEN available_height \div 3 ELSE 5 + extra \div 4
        cpu_first == IF g_show_cpu = 0 THEN 0
                     ELSE IF available_height > 5 + needed_for_bottom
                          THEN grown ELSE 5
        squeezed == available_height - cpu_first < 6
                    /\ (side \/ g_show_proc # 0)
        cpu_height == IF squeezed /\ g_show_cpu # 0
                      THEN (IF available_height - 6 < 3 THEN 0
                            ELSE available_height - 6)
                      ELSE cpu_first
    IN  [cpu_height |-> cpu_height,
         bottom_height |-> available_height - cpu_height]

\* cpu_height and bottom_height for a terminal of h rows
Heights(h) ==
    LET available_height == h - 1 - 1
        side == g_show_mem # 0 \/ g_show_disks # 0 \/ g_show_net # 0
        needed_for_bottom == 10 + (IF side THEN 3 ELSE 0)
        extra == available_height - 5 - needed_for_bottom
        grown == IF 5 + extra \div 4 > available_height \div 3
                 THEN available_height \div 3 ELSE 5 + extra \div 4
        cpu_first == IF g_show_cpu = 0 THEN 0
                     ELSE IF available_height > 5 + needed_for_bottom
                          THEN grown ELSE 5
        squeezed == available_height - cpu_first < 6
                    /\ (side \/ g_show_proc # 0)
        cpu_height == IF squeezed /\ g_show_cpu # 0
                      THEN (IF available_height - 6 < 3 THEN 0
                            ELSE available_height - 6)
                      ELSE cpu_first
    IN  [cpu_height |-> cpu_height,
         bottom_height |-> available_height - cpu_height]

\* Widths with the column between the two sides given to the process list
Widths_NoGapColumn(w) ==
    LET num_left_panes == g_show_mem + g_show_disks + g_show_net
        left_share == IF ((w - 3) * 35) \div 100 < 18 THEN 18
                      ELSE ((w - 3) * 35) \div 100
    IN  IF g_show_proc # 0 /\ num_left_panes = 0
        THEN [left_width |-> 0, proc_width |-> w - 2]
        ELSE IF g_show_proc = 0 /\ num_left_panes > 0
        THEN [left_width |-> w - 2, proc_width |-> 0]
        ELSE IF g_show_proc # 0 /\ num_left_panes > 0
        THEN [left_width |-> left_share, proc_width |-> (w - 2) - left_share]
        ELSE [left_width |-> 0, proc_width |-> 0]

\* left_width and proc_width for a terminal of w columns
Widths(w) ==
    LET num_left_panes == g_show_mem + g_show_disks + g_show_net
        left_share == IF ((w - 3) * 35) \div 100 < 18 THEN 18
                      ELSE ((w - 3) * 35) \div 100
    IN  IF g_show_proc # 0 /\ num_left_panes = 0
        THEN [left_width |-> 0, proc_width |-> w - 2]
        ELSE IF g_show_proc = 0 /\ num_left_panes > 0
        THEN [left_width |-> w - 2, proc_width |-> 0]
        ELSE IF g_show_proc # 0 /\ num_left_panes > 0
        THEN (IF (w - 3) - left_share < 40
              THEN [left_width |-> (w - 3) - 40, proc_width |-> 40]
              ELSE [left_width |-> left_share,
                    proc_width |-> (w - 3) - left_share])
        ELSE [left_width |-> 0, proc_width |-> 0]

\* pane_h of a stacked side pane
PaneH(base_pane_height, remaining_height) ==
    LET pane_h == IF base_pane_height < 4 THEN remaining_height
                  ELSE base_pane_height
    IN  IF pane_h > remaining_height THEN remaining_height ELSE pane_h

\* the calls for the stacked side panes, from row bottom_y
LeftCalls(bottom_y, left_width, bottom_height) ==
    LET num_left_panes == g_show_mem + g_show_disks + g_show_net
        base_pane_height == bottom_height \div num_left_panes
        mem == g_show_mem # 0 /\ bottom_height > 0
        mem_h == IF mem THEN PaneH(base_pane_height, bottom_height) ELSE 0
        after_mem == bottom_height - mem_h
        disk == g_show_disks # 0 /\ after_mem > 0
        disk_h == IF disk THEN PaneH(base_pane_height, after_mem) ELSE 0
        after_disk == after_mem - disk_h
        net == g_show_net # 0 /\ after_disk > 0
    IN  IF ~(num_left_panes > 0 /\ left_width > 0) THEN {}
        ELSE (IF mem THEN {DrawCall("mem", 1, bottom_y, left_width, mem_h)}
              ELSE {})
             \cup (IF disk
                   THEN {DrawCall("disk", 1, bottom_y + mem_h, left_width,
                                  disk_h)}
                   ELSE {})
             \cup (IF net
                   THEN {DrawCall("net", 1, bottom_y + mem_h + disk_h,
                                  left_width, after_disk)}
                   ELSE {})

\* the "Required size" line of draw_error_screen
RequiredSize == CalculateMinimumSize
\* no such line on the screen
NoRequiredSize == [min_w |-> 0, min_h |-> 0]

\* what draw_screen puts on a terminal of w columns and h rows: the error
\* screen with the size it reports as required, or the calls of the pane
\* drawers, with the cpu_height and bottom_height it worked out for them
Screen(w, h) ==
    LET min == CalculateMinimumSize
        hs == Heights(h)
        ws == Widths(w)
        num_left_panes == g_show_mem + g_show_disks + g_show_net
        cpu == g_show_cpu # 0 /\ hs.cpu_height > 0
        bottom_y == 1 + (IF cpu THEN hs.cpu_height ELSE 0)
        proc_x == IF num_left_panes > 0 THEN ws.left_width + 2 ELSE 1
    IN  IF w < min.min_w \/ h < min.min_h
        THEN [w |-> w, h |-> h, error |-> TRUE, required |-> RequiredSize,
              cpu_height |-> 0, bottom_height |-> 0, calls |-> {}]
        ELSE [w |-> w, h |-> h, error |-> FALSE, required |-> NoRequiredSize,
              cpu_height |-> hs.cpu_height,
              bottom_height |-> hs.bottom_height,
              calls |->
                (IF cpu THEN {DrawCall("cpu", 1, 1, w - 2, hs.cpu_height)}
                 ELSE {})
                \cup LeftCalls(bottom_y, ws.left_width, hs.bottom_height)
                \cup (IF g_show_proc # 0 /\ ws.proc_width > 0
                      THEN {DrawCall("proc", proc_x, bottom_y, ws.proc_width,
                                     hs.bottom_height)}
                      ELSE {})]

\* draw_screen on a terminal that tb_width and tb_height report as w by h
DrawScreen(w, h) ==
    /\ \E drawn \in { Screen(w, h) } :
           /\ screen' = drawn
           /\ g_scroll_offset' =
                  IF \E c \in drawn.calls : c.pane = "proc"
                  THEN ScrollOffset(drawn.bottom_height)
                  ELSE g_scroll_offset
    /\ UNCHANGED <<g_show_cpu, g_show_mem, g_show_disks, g_show_net,
                   g_show_proc>>

\* nothing drawn yet
NoScreen ==
    [w |-> 0, h |-> 0, error |-> FALSE, required |-> NoRequiredSize,
     cpu_height |-> 0, bottom_height |-> 0, calls |-> {}]

\* the pane flags as initialised, and nothing drawn yet
InitLayout ==
    /\ g_show_cpu = 1
    /\ g_show_mem = 1
    /\ g_show_disks = 1
    /\ g_show_net = 1
    /\ g_show_proc = 1
    /\ screen = NoScreen
    /\ g_scroll_offset = 0

\* ------------------------------------------------------------------- main
\* the keys main tells apart (ev.ch, or ev.key when ev.ch is 0), and one key
\* it has no binding for
PaneKeys == {"1", "2", "3", "4", "5"}
QuitKeys == {"q"}
SortKeys == {"TB_KEY_CTRL_F", "TB_KEY_CTRL_B"}
MoveKeys == {"TB_KEY_ARROW_DOWN", "TB_KEY_ARROW_UP", "TB_KEY_PGDN",
             "TB_KEY_PGUP", "TB_KEY_HOME", "TB_KEY_END"}

\* a struct tb_event: a key with a character, a key without, a resize to w
\* by h; NoEvent when tb_peek_event returns without one
NoEvent == [type |-> "none", ch |-> "", key |-> "", w |-> 0, h |-> 0]
CharEvent(ch) == [NoEvent EXCEPT !.type = "TB_EVENT_KEY", !.ch = ch]
KeyEvent(key) == [NoEvent EXCEPT !.type = "TB_EVENT_KEY", !.key = key]
ResizeEvent(w, h) ==
    [NoEvent EXCEPT !.type = "TB_EVENT_RESIZE", !.w = w, !.h = h]

\* the terminals of SpecMain: the default one, and one that is too small for
\* every set of panes
MainTermSizes == { <<80, 24>>, <<40, 10>> }

\* the events a wait may end with
Events ==
    { CharEvent(ch) : ch \in PaneKeys \cup QuitKeys \cup {"x"} }
    \cup { KeyEvent(key) : key \in SortKeys \cup MoveKeys }
    \cup { ResizeEvent(size[1], size[2]) : size \in MainTermSizes }

\* milliseconds after which an event arrives, if the wait lasts so long
EventDelays == {400}

\* the refresh_rate values of the configuration file that load_settings
\* takes, among them both ends of the range
RefreshRates == {100, REFRESH_RATE_MS, 2000, 10000}

\* what save_settings writes
Settings ==
    [show_cpu |-> g_show_cpu, show_mem |-> g_show_mem,
     show_disks |-> g_show_disks, show_net |-> g_show_net,
     show_proc |-> g_show_proc, sort_mode |-> g_sort_mode,
     refresh_rate |-> g_refresh_rate_ms]

\* the pane flags, in the order of their keys
ShowFlags ==
    <<g_show_cpu, g_show_mem, g_show_disks, g_show_net, g_show_proc>>

\* !flag
Not(flag) == IF flag = 0 THEN 1 ELSE 0

\* the globals and main's locals before main runs (the locals hold nothing
\* that is read before it is set)
InitMain ==
    /\ g_refresh_rate_ms = REFRESH_RATE_MS
    /\ g_running = 1
    /\ g_selected_process = 0
    /\ term = [w |-> 0, h |-> 0]
    /\ clock = 0
    /\ pc = "update_stats"
    /\ last_update = 0
    /\ prev_update = 0
    /\ in_error_mode = FALSE
    /\ now = 0
    /\ time_until_update = 0
    /\ ev = NoEvent
    /\ need_redraw = FALSE
    /\ pane_toggled = FALSE
    /\ sort_changed = FALSE
    /\ config = Settings
    /\ calls = <<>>
    /\ shown_before = ShowFlags
    /\ poll_clock = 0
    /\ since_poll = 0
    /\ main_iters = 0
    /\ sort_log = <<>>
    /\ unopened = {}

\* ------------------------------------------------------------ draw_graph
\* the cells draw_graph (and draw_sparkline_horizontal) reads from data for a
\* width w and a cursor idx, left to right
DrawGraphCells(data, idx, w) ==
    LET idx_start == CRem(idx - w + HISTORY_SIZE, HISTORY_SIZE)
        cols == IF w < HISTORY_SIZE THEN w ELSE HISTORY_SIZE
    IN  [col \in 1 .. cols |->
            HistGet(data, CRem(idx_start + (col - 1), HISTORY_SIZE), Zero)]

\* ---------------------------------------------------------------- SpecCpu
\* the program after the initialisers of its globals
InitState ==
    /\ history_index = 0
    /\ InitCpu
    /\ InitIo
    /\ InitProc
    /\ InitLayout
    /\ InitMain

PollCpu ==
    /\ cpu_polls < MaxCpuPolls
    /\ \E t \in TickSamples : UpdateStatsCpu(StatFile(t))
    /\ UNCHANGED <<load, ioVars, procVars, layoutVars, mainVars>>

InitSpecCpu == InitState /\ load = 0
NextCpu == PollCpu
SpecCpu == InitSpecCpu /\ [][NextCpu]_vars

\* --------------------------------------------------------------- SpecRing
\* A long run of polls on a machine whose counters only grow: between poll
\* p - 1 and poll p the core is busy for p % (load + 1) ticks and idle for one.
RingSample(p) ==
    LET last == IF cpu_in = <<>> THEN Ticks(0, 0, 0, 0, 0, 0, 0, 0)
                ELSE cpu_in[1].ticks
    IN  [last EXCEPT !.user = @ + (p % (load + 1)), !.idle = @ + 1]

PollRing ==
    /\ cpu_polls < MaxRingPolls
    /\ UpdateStatsCpu(StatFile(RingSample(cpu_polls + 1)))
    /\ UNCHANGED <<load, ioVars, procVars, layoutVars, mainVars>>

InitSpecRing == InitState /\ load \in 1 .. MaxLoad
NextRing == PollRing
SpecRing == InitSpecRing /\ [][NextRing]_vars

\* ----------------------------------------------------------------- SpecIo
PollIo ==
    /\ io_polls < MaxIoPolls
    /\ \E dt \in ElapsedMs, net \in NetFiles, dsk \in DiskFiles :
           UpdateStatsIo(dt, net, dsk)
    /\ UNCHANGED <<cpuVars, procVars, layoutVars, mainVars>>

InitSpecIo == InitState /\ load = 0
NextIo == PollIo
SpecIo == InitSpecIo /\ [][NextIo]_vars

\* --------------------------------------------------------------- SpecProc
\* The state in which the first update_stats calls parse_processes on a
\* machine with one core: parse_cpu_stats has read FirstStat and counted the
\* core, parse_meminfo has read MemTotal (/proc/net/dev and /proc/diskstats
\* were not readable, which leaves the I/O state as it was).
FirstStat == StatFile(Ticks(1, 0, 0, 1, 0, 0, 0, 0))
InitFirstUpdate ==
    LET st == AfterLines([overall |-> CoreStat0, cores |-> <<>>,
                          num_cores |-> 0], FirstStat)
    IN  /\ history_index = 0
        /\ overall = st.overall
        /\ cores = st.cores
        /\ num_cores = st.num_cores
        /\ cpu_history = HistSet(NoHistory, 0, 0)
        /\ cpu_in = FirstStat
        /\ cpu_before = [overall |-> CoreStat0, cores |-> <<>>]
        /\ cpu_polls = 1
        /\ cpu_written = <<Zero>>
        /\ load = 0
        /\ InitIo
        /\ processes = <<>>
        /\ running_count = 0
        /\ g_clk_tck = 0
        /\ total_mem = MemTotalKb
        /\ proc_in = [opened |-> FALSE, entries |-> <<>>]
        /\ proc_polls = 0
        /\ fresh = {}
        /\ was_busy = {}
        /\ InitLayout
        /\ InitMain

PollProc ==
    /\ proc_polls < MaxProcPolls
    /\ UNCHANGED <<history_index, cpuVars, netVars, layoutVars, mainVars>>
    /\ \E dt \in ProcElapsedMs, dir \in ProcDirs(TrackSamples, MaxPid) :
           UpdateStatsProc(dt, dir)

InitSpecProc == g_sort_mode = SORT_CPU_LAZY /\ InitFirstUpdate
NextProc == PollProc
SpecProc == InitSpecProc /\ [][NextProc]_vars

\* --------------------------------------------------------------- SpecRank
\* the sort mode is the one load_settings read or the keys left
PollRank ==
    /\ proc_polls < MaxRankPolls
    /\ UNCHANGED <<history_index, cpuVars, netVars, layoutVars, mainVars>>
    /\ \E dir \in ProcDirs(RankSamples, MaxRankPid) :
           UpdateStatsProc(REFRESH_RATE_MS, dir)

PollScan ==
    /\ proc_polls < MaxScanPolls
    /\ UNCHANGED <<history_index, cpuVars, netVars, layoutVars, mainVars>>
    /\ \E dir \in ProcDirs(ScanSamples, MaxScanPid) :
           UpdateStatsProc(REFRESH_RATE_MS, dir)

InitSpecScan == g_sort_mode = SORT_PID /\ InitFirstUpdate
NextScan == PollScan
SpecScan == InitSpecScan /\ [][NextScan]_vars

InitSpecRank == g_sort_mode \in 0 .. SORT_MAX - 1 /\ InitFirstUpdate
NextRank == PollRank
SpecRank == InitSpecRank /\ [][NextRank]_vars

\* ------------------------------------------------------------- SpecLayout
\* The program after load_settings, drawing on terminals around the minimum
\* sizes.  The pane flags are the values the program keeps and saves: each
\* starts at 1 and a pane key stores !flag, so a flag is 0 or 1.
TermWidths == 79 .. MaxTermW
TermHeights == 9 .. MaxTermH
\* one terminal far below every minimum, and two wide ones
WideTermSizes == { <<130, 24>>, <<200, 46>> }
TermSizes == (TermWidths \X TermHeights) \cup { <<40, 10>> }
             \cup WideTermSizes

Draw ==
    /\ \E size \in TermSizes :
           /\ term' = [w |-> size[1], h |-> size[2]]
           /\ DrawScreen(size[1], size[2])
    /\ UNCHANGED <<history_index, cpuVars, ioVars, procVars, loopVars>>

\* the machines of SpecLayout: 1, 4, 7, 16 or 64 cores
CoreCounts == {1, 4, 7, 16, 64}

\* the /proc/stat of a machine with n cores at the first poll
BootStat(n) ==
    <<StatLine(-1, Ticks(n, 0, 0, n, 0, 0, 0, 0))>>
    \o [i \in 1 .. n |-> StatLine(i - 1, Ticks(1, 0, 0, 1, 0, 0, 0, 0))]

\* the CPU state when main first calls draw_screen: parse_cpu_stats has read
\* the lines ls once
CpuAtFirstDraw(ls) ==
    LET st == AfterLines([overall |-> CoreStat0, cores |-> <<>>,
                          num_cores |-> 0], ls)
    IN  /\ history_index = 1
        /\ overall = st.overall
        /\ cores = st.cores
        /\ num_cores = st.num_cores
        /\ cpu_history = HistSet(NoHistory, 0, 0)
        /\ cpu_in = ls
        /\ cpu_before = [overall |-> CoreStat0, cores |-> <<>>]
        /\ cpu_polls = 1
        /\ cpu_written = <<Zero>>

InitSpecLayout ==
    /\ \E n \in CoreCounts : CpuAtFirstDraw(BootStat(n))
    /\ load = 0
    /\ InitIo
    /\ InitProc
    /\ g_show_cpu \in 0 .. 1
    /\ g_show_mem \in 0 .. 1
    /\ g_show_disks \in 0 .. 1
    /\ g_show_net \in 0 .. 1
    /\ g_show_proc \in 0 .. 1
    /\ screen = NoScreen
    /\ g_scroll_offset = 0
    /\ InitMain
NextLayout == Draw
SpecLayout == InitSpecLayout /\ [][NextLayout]_vars

\* --------------------------------------------------------------- SpecMain
\* the files of the machine of SpecMain: one core that is busy every second
\* poll, an interface and a disk without traffic, and the programs "a" and
\* "b"
MainStat == StatFile(RingSample(cpu_polls + 1))
MainNet == <<NetLine("lo:", 1, 1), NetLine("eth0:", 1, 1)>>
MainDisks == <<DiskLine("sda", 1, 1, 512)>>
MainProc ==
    [opened |-> TRUE,
     entries |-> <<ProcEntry(1, <<97>>, "S", 1, 1, 0),
                   ProcEntry(2, <<98>>, "R", 2, 1, 1)>>]

\* a file fopen opens, with its lines; /proc/meminfo, with its MemTotal; and
\* a file fopen fails on
File(lines) == [opened |-> TRUE, lines |-> lines]
Meminfo(MemTotal) == [opened |-> TRUE, MemTotal |-> MemTotal]
NoFile == [opened |-> FALSE, lines |-> <<>>, MemTotal |-> 0, entries |-> <<>>]

\* the five sources of update_stats, and a machine on which all can be
\* opened
Sources == {"stat", "meminfo", "net", "dsk", "dir"}
Machine(stat, net, dsk, dir) ==
    [stat |-> File(stat), meminfo |-> Meminfo(MemTotalKb), net |-> File(net),
     dsk |-> File(dsk), dir |-> dir]

\* the machine m with the sources named in failed out of reach
Without(m, failed) ==
    [name \in Sources |-> IF name \in failed THEN NoFile ELSE m[name]]

\* parse_cpu_stats: nothing is stored when fopen fails
ParseCpuFile(file) ==
    IF file.opened THEN ParseCpuStats(file.lines)
    ELSE /\ UNCHANGED <<overall, cores, num_cores, cpu_history, cpu_written,
                        cpu_in>>
         /\ cpu_before' = [overall |-> overall, cores |-> cores]
         /\ cpu_polls' = cpu_polls + 1

\* parse_meminfo, as far as g_stats.total_mem goes
ParseMeminfo(file) ==
    total_mem' = IF file.opened THEN file.MemTotal ELSE total_mem

\* parse_net_stats with the speeds cleared when fopen fails
ParseNetFile_ZeroOnFailure(file) ==
    IF file.opened THEN ParseNetStats(file.lines)
    ELSE /\ net_rx_speed' = Zero
         /\ net_tx_speed' = Zero
         /\ UNCHANGED <<net_history_rx, net_history_tx, prev_net_rx,
                        prev_net_tx>>

\* parse_net_stats: nothing is stored when fopen fails
ParseNetFile(file) ==
    IF file.opened THEN ParseNetStats(file.lines)
    ELSE UNCHANGED <<net_rx_speed, net_tx_speed, net_history_rx,
                     net_history_tx, prev_net_rx, prev_net_tx>>

\* parse_disk_stats: nothing is stored when fopen fails
ParseDiskFile(file) ==
    IF file.opened THEN ParseDiskStats(file.lines) ELSE UNCHANGED disks

\* update_stats, dt milliseconds after prev_update, on the machine m
UpdateStatsFrom(dt, m) ==
    /\ history_index' = (history_index + 1) % HISTORY_SIZE
    /\ UNCHANGED load
    /\ ParseCpuFile(m.stat)
    /\ ParseMeminfo(m.meminfo)
    /\ ParseNetFile(m.net)
    /\ ParseDiskFile(m.dsk)
    /\ io_in' = [net |-> m.net.lines, dsk |-> m.dsk.lines]
    /\ io_before' = [prev_net_rx |-> prev_net_rx, prev_net_tx |-> prev_net_tx,
                     net_rx_speed |-> net_rx_speed,
                     net_tx_speed |-> net_tx_speed, disks |-> disks]
    /\ io_polls' = io_polls + 1
    /\ ProcUpdate(dt, m.dir)
    /\ unopened' = { name \in Sources : ~m[name].opened }

\* the machine of SpecMain
MainMachine == Machine(MainStat, MainNet, MainDisks, MainProc)

\* main up to its first draw_screen: update_stats with g_elapsed_seconds at
\* its initial 1.0f (which is also what Elapsed gives for no time passed)
FirstUpdate(m) ==
    /\ pc = "update_stats"
    /\ UpdateStatsFrom(0, m)
    /\ poll_clock' = clock
    /\ calls' = <<"update_stats">>
    /\ pc' = "draw_screen"
    /\ UNCHANGED <<layoutVars, term, g_refresh_rate_ms, g_running,
                   g_selected_process, clock, last_update, prev_update,
                   in_error_mode, now, time_until_update, ev, need_redraw,
                   pane_toggled, sort_changed, config, shown_before,
                   since_poll, main_iters, sort_log>>

\* the first draw_screen, and last_update = prev_update = get_time_ms()
MainFirstDraw ==
    /\ pc = "draw_screen"
    /\ DrawScreen(term.w, term.h)
    /\ calls' = Append(calls, "draw_screen")
    /\ last_update' = clock
    /\ prev_update' = clock
    /\ pc' = "while"
    /\ UNCHANGED <<history_index, cpuVars, ioVars, procVars, term,
                   g_refresh_rate_ms, g_running, g_selected_process, clock,
                   in_error_mode, now, time_until_update, ev, need_redraw,
                   pane_toggled, sort_changed, config, shown_before,
                   poll_clock, since_poll, main_iters,
                   sort_log, unopened>>

\* time_until_update at the top of the loop
TimeUntilUpdate ==
    LET left == REFRESH_RATE_MS - (clock - last_update)
    IN  IF left < 0 THEN 0 ELSE left

\* g_selected_process after a movement key
Moved(key) ==
    LET process_count == Len(processes)
    IN  CASE key = "TB_KEY_ARROW_DOWN" ->
                IF g_selected_process < process_count - 1
                THEN g_selected_process + 1 ELSE g_selected_process
          [] key = "TB_KEY_ARROW_UP" ->
                IF g_selected_process > 0
                THEN g_selected_process - 1 ELSE g_selected_process
          [] key = "TB_KEY_PGDN" ->
                IF g_selected_process + 10 >= process_count
                THEN process_count - 1 ELSE g_selected_process + 10
          [] key = "TB_KEY_PGUP" ->
                IF g_selected_process - 10 < 0 THEN 0
                ELSE g_selected_process - 10
          [] key = "TB_KEY_HOME" -> 0
          [] key = "TB_KEY_END" -> process_count - 1

\* the branches of the key handling for the event e, with in_error_mode as
\* computed at the top of this iteration
HandleEvent(e, error) ==
    LET pane == e.type = "TB_EVENT_KEY" /\ e.ch \in PaneKeys
        sort == e.type = "TB_EVENT_KEY" /\ e.ch = "" /\ e.key \in SortKeys
        quit == e.type = "TB_EVENT_KEY" /\ e.ch \in QuitKeys
        move == /\ e.type = "TB_EVENT_KEY" /\ e.ch = "" /\ e.key \in MoveKeys
                /\ ~error /\ g_show_proc # 0
    IN  /\ g_show_cpu' = IF pane /\ e.ch = "1" THEN Not(g_show_cpu)
                         ELSE g_show_cpu
        /\ g_show_mem' = IF pane /\ e.ch = "2" THEN Not(g_show_mem)
                         ELSE g_show_mem
        /\ g_show_disks' = IF pane /\ e.ch = "3" THEN Not(g_show_disks)
                           ELSE g_show_disks
        /\ g_show_net' = IF pane /\ e.ch = "4" THEN Not(g_show_net)
                         ELSE g_show_net
        /\ g_show_proc' = IF pane /\ e.ch = "5" THEN Not(g_show_proc)
                          ELSE g_show_proc
        /\ g_sort_mode' =
               IF sort /\ e.key = "TB_KEY_CTRL_F"
               THEN (g_sort_mode + 1) % SORT_MAX
               ELSE IF sort /\ e.key = "TB_KEY_CTRL_B"
               THEN (g_sort_mode - 1 + SORT_MAX) % SORT_MAX
               ELSE g_sort_mode
        /\ g_running' = IF quit THEN 0 ELSE g_running
        /\ g_selected_process' = IF move THEN Moved(e.key)
                                 ELSE g_selected_process
        /\ term' = IF e.type = "TB_EVENT_RESIZE" THEN [w |-> e.w, h |-> e.h]
                   ELSE term
        /\ need_redraw' = (pane \/ sort \/ move
                           \/ e.type = "TB_EVENT_RESIZE")
        /\ pane_toggled' = pane
        /\ sort_changed' = sort

\* the top of the loop, the wait for an event and its handling: the wait
\* ends with an event, which arrives after one of EventDelays or as the
\* timeout runs out if that is sooner, or without one when the timeout has
\* passed
Wait(events, iters) ==
    /\ pc = "while"
    /\ g_running # 0
    /\ main_iters < iters
    /\ main_iters' = main_iters + 1
    /\ in_error_mode' = (term.w < CalculateMinimumSize.min_w
                         \/ term.h < CalculateMinimumSize.min_h)
    /\ now' = clock
    /\ time_until_update' = TimeUntilUpdate
    /\ \/ \E e \in events, d \in EventDelays :
            /\ e.type = "TB_EVENT_RESIZE" => <<e.w, e.h>> # <<term.w, term.h>>
            /\ ev' = e
            /\ clock' = clock + (IF d < TimeUntilUpdate THEN d
                                 ELSE TimeUntilUpdate)
       \/ /\ ev' = NoEvent
          /\ clock' = clock + TimeUntilUpdate
    /\ HandleEvent(ev', in_error_mode')
    /\ calls' = <<>>
    /\ shown_before' = ShowFlags
    /\ pc' = "need_redraw"
    /\ UNCHANGED <<history_index, cpuVars, ioVars, processes, running_count,
                   g_clk_tck, total_mem, proc_in, proc_polls, fresh,
                   was_busy, screen, g_scroll_offset, g_refresh_rate_ms,
                   unopened, last_update,
                   prev_update, config, poll_clock, since_poll>>

\* if (need_redraw) draw_screen();
MainRedraw ==
    /\ pc = "need_redraw"
    /\ IF need_redraw
       THEN /\ DrawScreen(term.w, term.h)
            /\ calls' = Append(calls, "draw_screen")
       ELSE UNCHANGED <<layoutVars, calls>>
    /\ pc' = "refresh"
    /\ UNCHANGED <<history_index, cpuVars, ioVars, procVars, term,
                   g_refresh_rate_ms, g_running, g_selected_process, clock,
                   last_update, prev_update, in_error_mode, now,
                   time_until_update, ev, need_redraw, pane_toggled,
                   sort_changed, config, shown_before, poll_clock,
                   since_poll, main_iters,
                   sort_log, unopened>>

\* the test that guards the update
RefreshDue_OnRedraw(t) ==
    need_redraw \/ pane_toggled \/ sort_changed
    \/ t - last_update >= g_refresh_rate_ms
RefreshDue_OnToggleOnly(t) ==
    pane_toggled \/ t - last_update >= g_refresh_rate_ms
RefreshDue(t) ==
    pane_toggled \/ sort_changed \/ t - last_update >= g_refresh_rate_ms

\* the test that guards update_stats
PollAllowed_UnlessTooSmall == ~in_error_mode
PollAllowed == ~in_error_mode \/ pane_toggled \/ sort_changed

\* now = get_time_ms() and the update: save_settings after a toggle,
\* g_elapsed_seconds, update_stats unless the terminal is too small and no
\* key asked for it, prev_update and last_update
Refresh(m) ==
    /\ pc = "refresh"
    /\ now' = clock
    /\ IF RefreshDue(now')
       THEN /\ config' = IF pane_toggled THEN Settings ELSE config
            /\ IF PollAllowed
               THEN /\ UpdateStatsFrom(now' - prev_update, m)
                    /\ poll_clock' = clock
                    /\ since_poll' = clock - poll_clock
                    /\ calls' = calls
                                \o (IF pane_toggled THEN <<"save_settings">>
                                    ELSE <<>>)
                                \o <<"update_stats">>
               ELSE /\ g_elapsed_seconds' = Elapsed(now' - prev_update)
                    /\ calls' = calls
                                \o (IF pane_toggled THEN <<"save_settings">>
                                    ELSE <<>>)
                    /\ UNCHANGED <<history_index, cpuVars, netVars, procVars,
                                   poll_clock, since_poll, unopened>>
            /\ prev_update' = now'
            /\ last_update' = now'
            /\ pc' = "draw_screen_again"
       ELSE /\ pc' = "while"
            /\ UNCHANGED <<history_index, cpuVars, ioVars, procVars, config,
                           calls, prev_update, last_update, poll_clock,
                           since_poll, unopened>>
    /\ UNCHANGED <<layoutVars, term, g_refresh_rate_ms, g_running,
                   g_selected_process, clock, in_error_mode,
                   time_until_update, ev, need_redraw, pane_toggled,
                   sort_changed, shown_before, main_iters, sort_log>>

\* the draw_screen that ends the update
MainDraw ==
    /\ pc = "draw_screen_again"
    /\ DrawScreen(term.w, term.h)
    /\ calls' = Append(calls, "draw_screen")
    /\ pc' = "while"
    /\ UNCHANGED <<history_index, cpuVars, ioVars, procVars, term,
                   g_refresh_rate_ms, g_running, g_selected_process, clock,
                   last_update, prev_update, in_error_mode, now,
                   time_until_update, ev, need_redraw, pane_toggled,
                   sort_changed, config, shown_before, poll_clock,
                   since_poll, main_iters,
                   sort_log, unopened>>

\* the loop has ended: save_settings, tb_shutdown
MainExit ==
    /\ pc = "while"
    /\ g_running = 0
    /\ config' = Settings
    /\ pc' = "return"
    /\ UNCHANGED <<history_index, cpuVars, ioVars, procVars, layoutVars,
                   term, g_refresh_rate_ms, g_running, g_selected_process,
                   clock, last_update, prev_update, in_error_mode, now,
                   time_until_update, ev, need_redraw, pane_toggled,
                   sort_changed, calls, shown_before, poll_clock,
                   since_poll, main_iters,
                   sort_log, unopened>>

\* SpecMain: main after load_settings, on a terminal of one of the two
\* sizes, with the refresh rate the configuration file gave
InitSpecMain ==
    /\ history_index = 0
    /\ InitCpu
    /\ load = 1
    /\ InitIo
    /\ InitProc
    /\ InitLayout
    /\ g_refresh_rate_ms \in RefreshRates
    /\ g_running = 1
    /\ g_selected_process = 0
    /\ \E size \in MainTermSizes : term = [w |-> size[1], h |-> size[2]]
    /\ clock = 0
    /\ pc = "update_stats"
    /\ last_update = 0
    /\ prev_update = 0
    /\ in_error_mode = FALSE
    /\ now = 0
    /\ time_until_update = 0
    /\ ev = NoEvent
    /\ need_redraw = FALSE
    /\ pane_toggled = FALSE
    /\ sort_changed = FALSE
    /\ config = Settings
    /\ calls = <<>>
    /\ shown_before = ShowFlags
    /\ poll_clock = 0
    /\ since_poll = 0
    /\ main_iters = 0
    /\ sort_log = <<>>
    /\ unopened = {}
MainFirstUpdate == FirstUpdate(MainMachine)
MainWait == Wait(Events, MaxMainIters) /\ UNCHANGED sort_log
MainRefresh == Refresh(MainMachine)
NextMain ==
    \/ MainFirstUpdate
    \/ MainFirstDraw
    \/ MainWait
    \/ MainRedraw
    \/ MainRefresh
    \/ MainDraw
    \/ MainExit
SpecMain == InitSpecMain /\ [][NextMain]_vars

\* --------------------------------------------------------------- SpecKeys
\* load_settings on a configuration file that gives every key one integer:
\* the seven globals after it (each was at its initial value before)
LoadSettings_AnyValue(file) == file
LoadSettings(file) ==
    [show_cpu |-> file.show_cpu, show_mem |-> file.show_mem,
     show_disks |-> file.show_disks, show_net |-> file.show_net,
     show_proc |-> file.show_proc,
     sort_mode |-> IF file.sort_mode >= 0 /\ file.sort_mode < SORT_MAX
                   THEN file.sort_mode ELSE SORT_CPU_LAZY,
     refresh_rate |-> IF file.refresh_rate >= 100
                         /\ file.refresh_rate <= 10000
                      THEN file.refresh_rate ELSE REFRESH_RATE_MS]

\* the sort_mode and refresh_rate values of the configuration files of
\* SpecKeys: in range, at both ends of the range, and outside it
SortModeValues == {-1, 0, 1, 2, 3, 4, 5}
RefreshRateValues == {99, 100, 10000, 10001}
ConfigFiles ==
    { [show_cpu |-> 1, show_mem |-> 1, show_disks |-> 1, show_net |-> 1,
       show_proc |-> 1, sort_mode |-> m, refresh_rate |-> r] :
        m \in SortModeValues, r \in RefreshRateValues }

\* main after load_settings has read file, on a terminal of w columns and h
\* rows
AfterLoadSettings(file, w, h) ==
    /\ g_show_cpu = LoadSettings(file).show_cpu
    /\ g_show_mem = LoadSettings(file).show_mem
    /\ g_show_disks = LoadSettings(file).show_disks
    /\ g_show_net = LoadSettings(file).show_net
    /\ g_show_proc = LoadSettings(file).show_proc
    /\ g_sort_mode = LoadSettings(file).sort_mode
    /\ g_refresh_rate_ms = LoadSettings(file).refresh_rate
    /\ config = file
    /\ history_index = 0
    /\ InitCpu
    /\ load = 1
    /\ InitIo
    /\ processes = <<>>
    /\ running_count = 0
    /\ g_clk_tck = 0
    /\ total_mem = 0
    /\ proc_in = [opened |-> FALSE, entries |-> <<>>]
    /\ proc_polls = 0
    /\ fresh = {}
    /\ was_busy = {}
    /\ screen = NoScreen
    /\ g_scroll_offset = 0
    /\ g_running = 1
    /\ g_selected_process = 0
    /\ term = [w |-> w, h |-> h]
    /\ clock = 0
    /\ pc = "update_stats"
    /\ last_update = 0
    /\ prev_update = 0
    /\ in_error_mode = FALSE
    /\ now = 0
    /\ time_until_update = 0
    /\ ev = NoEvent
    /\ need_redraw = FALSE
    /\ pane_toggled = FALSE
    /\ sort_changed = FALSE
    /\ calls = <<>>
    /\ shown_before = ShowFlags
    /\ poll_clock = 0
    /\ since_poll = 0
    /\ main_iters = 0
    /\ sort_log = <<>>
    /\ unopened = {}

\* the keys of SpecKeys: the two sort keys and quit
KeyEvents ==
    { KeyEvent(key) : key \in SortKeys } \cup { CharEvent("q") }

\* sort_log after the event of this iteration
SortLogged ==
    IF ev'.type = "TB_EVENT_KEY" /\ ev'.ch = "" /\ ev'.key \in SortKeys
    THEN Append(sort_log, [key |-> ev'.key, before |-> g_sort_mode,
                           after |-> g_sort_mode'])
    ELSE sort_log

KeysWait == Wait(KeyEvents, MaxKeyIters) /\ sort_log' = SortLogged

\* SpecKeys: main after load_settings on one of ConfigFiles, on the default
\* terminal, with sort keys and quit as the only keys
InitSpecKeys == \E file \in ConfigFiles : AfterLoadSettings(file, 80, 24)
NextKeys ==
    \/ MainFirstUpdate
    \/ MainFirstDraw
    \/ KeysWait
    \/ MainRedraw
    \/ MainRefresh
    \/ MainDraw
    \/ MainExit
SpecKeys == InitSpecKeys /\ [][NextKeys]_vars

\* ------------------------------------------------------------- SpecSelect
\* the /proc directories of SpecSelect: the idle programs "a", "b", ... with
\* the pids 1 .. n, for every n up to MaxSelectProcs, none included
SelectDir(n) ==
    [opened |-> TRUE,
     entries |-> [pid \in 1 .. n |->
                    ProcEntry(pid, <<96 + pid>>, "S", pid, 1, 0)]]
SelectDirs == { SelectDir(n) : n \in 0 .. MaxSelectProcs }

\* the configuration file of SpecSelect: every pane, the list by pid
SelectConfig ==
    [show_cpu |-> 1, show_mem |-> 1, show_disks |-> 1, show_net |-> 1,
     show_proc |-> 1, sort_mode |-> SORT_PID,
     refresh_rate |-> REFRESH_RATE_MS]

\* the keys of SpecSelect: the movement keys and quit
SelectEvents ==
    { KeyEvent(key) : key \in MoveKeys } \cup { CharEvent("q") }

SelectFirstUpdate ==
    \E dir \in SelectDirs :
        FirstUpdate(Machine(MainStat, MainNet, MainDisks, dir))
SelectWait == Wait(SelectEvents, MaxSelectIters) /\ UNCHANGED sort_log
SelectRefresh ==
    \E dir \in SelectDirs :
        Refresh(Machine(MainStat, MainNet, MainDisks, dir))

\* SpecSelect: main on the default terminal, on a machine whose process set
\* is any of SelectDirs at each poll, with the movement keys and quit as the
\* only keys
InitSpecSelect == AfterLoadSettings(SelectConfig, 80, 24)
NextSelect ==
    \/ SelectFirstUpdate
    \/ MainFirstDraw
    \/ SelectWait
    \/ MainRedraw
    \/ SelectRefresh
    \/ MainDraw
    \/ MainExit
SpecSelect == InitSpecSelect /\ [][NextSelect]_vars

\* --------------------------------------------------------------- SpecFail
\* the machine of SpecFail: the core of SpecMain, an interface that receives
\* 1 KiB and sends 2 KiB between two polls, a disk that reads two sectors
\* between two polls, and the programs "a", idle, and "b", which runs one
\* tick between two polls
FailNet ==
    <<NetLine("lo:", 1, 1),
      NetLine("eth0:", 1 + 1024 * io_polls, 1 + 2048 * io_polls)>>
FailDisks == <<DiskLine("sda", 1 + 2 * io_polls, 1, 512)>>
FailProc ==
    [opened |-> TRUE,
     entries |-> <<ProcEntry(1, <<97>>, "S", 1, 1, 0),
                   ProcEntry(2, <<98>>, "R", 2, 1 + proc_polls, 1)>>]
FailMachine == Machine(MainStat, FailNet, FailDisks, FailProc)

\* the sources out of reach at one poll: none, any one, or all
FailureSets == { {} } \cup { {name} : name \in Sources } \cup { Sources }

\* the events of SpecFail: quit, a key without a binding, a pane key, a sort
\* key, a movement key, and a resize to a terminal that is too small
FailEvents ==
    { CharEvent("q"), CharEvent("x"), CharEvent("1"),
      KeyEvent("TB_KEY_CTRL_F"), KeyEvent("TB_KEY_END"), ResizeEvent(40, 10) }

FailFirstUpdate ==
    \E failed \in FailureSets : FirstUpdate(Without(FailMachine, failed))
FailWait == Wait(FailEvents, MaxFailIters) /\ UNCHANGED sort_log
FailRefresh ==
    \E failed \in FailureSets : Refresh(Without(FailMachine, failed))

\* SpecFail: main on the default terminal, on a machine where each
\* update_stats finds one of FailureSets out of reach
InitSpecFail == AfterLoadSettings(SelectConfig, 80, 24)
NextFail ==
    \/ FailFirstUpdate
    \/ MainFirstDraw
    \/ FailWait
    \/ MainRedraw
    \/ FailRefresh
    \/ MainDraw
    \/ MainExit
SpecFail == InitSpecFail /\ [][NextFail]_vars

\* ------------------------------------------------------------- CPU claims
\* the CoreStat a line of the last poll updated, before and after the poll
EntityBefore(l) ==
    IF l.core = -1 THEN cpu_before.overall ELSE cpu_before.cores[l.core]
EntityAfter(l) == IF l.core = -1 THEN overall ELSE cores[l.core]
\* the entity of line l was sampled by an earlier poll
HasPrevSample(l) ==
    /\ cpu_polls >= 2
    /\ l.core \in {-1} \cup DOMAIN cpu_before.cores
\* the differences of the claim, in the integers
TotalDiff(l) ==
    (l.ticks.user + l.ticks.nice + l.ticks.system + l.ticks.idle
     + l.ticks.iowait + l.ticks.irq + l.ticks.softirq + l.ticks.steal)
    - EntityBefore(l).prev_total
IdleDiff(l) == (l.ticks.idle + l.ticks.iowait) - EntityBefore(l).prev_idle
CpuLines == { cpu_in[i] : i \in 1 .. Len(cpu_in) }

\* C1: for every entity with a previous sample and total_diff > 0, the stored
\* percent is 100 * (total_diff - idle_diff) / total_diff and lies in [0, 100]
C1_PercentFormulaAndRange ==
    \A l \in CpuLines :
        (HasPrevSample(l) /\ TotalDiff(l) > 0) =>
            LET p == EntityAfter(l).percent
            IN  /\ p.n * TotalDiff(l)
                     = 100 * (TotalDiff(l) - IdleDiff(l)) * p.d
                /\ p.n >= 0
                /\ p.n <= 100 * p.d

\* C2: when the current total is not above the previous total (total_diff
\* <= 0), the percent after the poll is the percent before it
C2_HoldOnNonPositiveDiff ==
    \A l \in CpuLines :
        (HasPrevSample(l) /\ TotalDiff(l) <= 0) =>
            REq(EntityAfter(l).percent, EntityBefore(l).percent)

\* C7: once HISTORY_SIZE or more values were written, a read of any width
\* W <= HISTORY_SIZE returns the last W written values, oldest first
C7_ReadReturnsLastWrites ==
    Len(cpu_written) >= HISTORY_SIZE =>
        \A W \in 0 .. HISTORY_SIZE :
            DrawGraphCells(overall.history, overall.history_idx, W)
                = [col \in 1 .. W |->
                     cpu_written[Len(cpu_written) - W + col]]

\* the ring has wrapped (more than HISTORY_SIZE writes, cursor inside the
\* buffer), the newest values differ, and a full-width read returns them
C7_Witness ==
    /\ Len(cpu_written) > HISTORY_SIZE
    /\ overall.history_idx > 0
    /\ cpu_written[Len(cpu_written)] # cpu_written[Len(cpu_written) - 1]
    /\ DrawGraphCells(overall.history, overall.history_idx, HISTORY_SIZE)
         = [col \in 1 .. HISTORY_SIZE |->
              cpu_written[Len(cpu_written) - HISTORY_SIZE + col]]

\* ------------------------------------------------------------- I/O claims
\* the totals the last poll read, and the retained disk a new one matched
NetRead == NetTotals(io_in.net)
DiskLines ==
    { io_in.dsk[i] : i \in 1 .. Len(io_in.dsk) } \ 
    { l \in { io_in.dsk[i] : i \in 1 .. Len(io_in.dsk) } :
        l.name \in VirtualNames }
OldDisk(name) ==
    CHOOSE d \in { io_before.disks[i] : i \in 1 .. Len(io_before.disks) } :
        d.name = name
NowDisk(name) ==
    CHOOSE d \in { disks[i] : i \in 1 .. Len(disks) } : d.name = name
Matched(l) ==
    \E i \in 1 .. Len(io_before.disks) : io_before.disks[i].name = l.name
\* speed (KiB/s) is delta bytes over g_elapsed_seconds
IsRate(speed, delta) ==
    speed.n * 1024 * g_elapsed_seconds.n
        = delta * g_elapsed_seconds.d * speed.d

\* C8: for two consecutive polls e > 0 seconds apart and a counter that did
\* not go down, the stored rate is (current - previous) / e, in KiB/s, for
\* the network totals and for every matched disk
C8_RateIsDeltaOverElapsed ==
    io_polls >= 2 =>
        /\ NetRead.rx >= io_before.prev_net_rx =>
               IsRate(net_rx_speed, NetRead.rx - io_before.prev_net_rx)
        /\ NetRead.tx >= io_before.prev_net_tx =>
               IsRate(net_tx_speed, NetRead.tx - io_before.prev_net_tx)
        /\ \A l \in DiskLines :
               Matched(l) =>
                   /\ l.read_sectors >= OldDisk(l.name).read_sectors =>
                          IsRate(NowDisk(l.name).read_speed,
                                 (l.read_sectors
                                  - OldDisk(l.name).read_sectors)
                                 * l.sector_size)
                   /\ l.write_sectors >= OldDisk(l.name).write_sectors =>
                          IsRate(NowDisk(l.name).write_speed,
                                 (l.write_sectors
                                  - OldDisk(l.name).write_sectors)
                                 * l.sector_size)

\* C9: a counter read smaller than the value retained from the previous
\* poll gives a stored rate of 0
C9_NegativeDeltaGivesZero ==
    io_polls >= 2 =>
        /\ NetRead.rx < io_before.prev_net_rx => net_rx_speed.n = 0
        /\ NetRead.tx < io_before.prev_net_tx => net_tx_speed.n = 0
        /\ \A l \in DiskLines :
               Matched(l) =>
                   /\ l.read_sectors < OldDisk(l.name).read_sectors =>
                          NowDisk(l.name).read_speed.n = 0
                   /\ l.write_sectors < OldDisk(l.name).write_sectors =>
                          NowDisk(l.name).write_speed.n = 0

\* --------------------------------------------------------- process claims
\* the entries of one pid in the table before and after a poll that scanned
\* /proc
SamePid(i, k) == processes[i].pid = processes'[k].pid
\* 0.7 * prev + 0.3 * inst
Blend(prev, inst) == RAdd(RMul(prev, Rat(7, 10)), RMul(inst, Rat(3, 10)))
SmoothedStep ==
    proc_in'.opened /\ proc_polls' = proc_polls + 1 =>
        \A i \in DOMAIN processes, k \in DOMAIN processes' :
            SamePid(i, k) =>
                LET prev == processes[i].cpu_percent_lazy
                    inst == processes'[k].cpu_percent
                    lazy == processes'[k].cpu_percent_lazy
                IN  IF ~RIsZero(prev) \/ ~RIsZero(inst)
                    THEN REq(lazy, Blend(prev, inst))
                    ELSE REq(lazy, inst)

\* C3: for a pid present in two consecutive polls, the smoothed CPU% the
\* second poll stores is 0.7 * (the smoothed value after the first poll)
\* + 0.3 * (the instantaneous value of the second poll) when either of the
\* two is non-zero, and the instantaneous value otherwise.
C3_SmoothedIsMovingAverage == [][SmoothedStep]_vars

\* C4: a pid that the preceding scan did not list has instantaneous CPU% 0
\* and smoothed CPU% 0 after the scan that lists it, whatever an entity of
\* the same pid had in an earlier poll.
C4_NewPidStartsAtZero ==
    \A i \in DOMAIN processes :
        processes[i].pid \in fresh =>
            /\ RIsZero(processes[i].cpu_percent)
            /\ RIsZero(processes[i].cpu_percent_lazy)

\* a pid that had a non-zero smoothed value in an earlier poll, was not
\* listed by the scan before the last, and is listed again with ticks used
C4_Witness ==
    \E i \in DOMAIN processes :
        /\ processes[i].pid \in fresh
        /\ processes[i].pid \in was_busy
        /\ processes[i].prev_utime + processes[i].prev_stime > 0
        /\ Len(processes) = MaxPid
        /\ RIsZero(processes[i].cpu_percent_lazy)

\* the primary keys of two entries are equal under the current sort mode
SameKey(pa, pb) ==
    CASE g_sort_mode = SORT_CPU_LAZY ->
            REq(pa.cpu_percent_lazy, pb.cpu_percent_lazy)
      [] g_sort_mode = SORT_CPU_DIRECT -> REq(pa.cpu_percent, pb.cpu_percent)
      [] g_sort_mode = SORT_MEM -> pa.mem_rss = pb.mem_rss
      [] g_sort_mode = SORT_PID -> pa.pid = pb.pid
      [] g_sort_mode = SORT_NAME -> Strcasecmp(pa.name, pb.name) = 0

\* C5: in every sort mode compare_processes orders two entries of equal
\* primary key by ascending pid, and a table whose primary keys are all
\* equal is in ascending pid order after the sort.
C5_TieBreakByPid ==
    /\ \A i, j \in DOMAIN processes :
           SameKey(processes[i], processes[j])
           /\ processes[i].pid < processes[j].pid
               => CompareProcesses(processes[i], processes[j]) < 0
    /\ (\A i, j \in DOMAIN processes : SameKey(processes[i], processes[j]))
           => \A i, j \in DOMAIN processes :
                  i < j => processes[i].pid < processes[j].pid

\* C6: after every poll the table is ordered by the primary key of the
\* current sort mode: descending smoothed CPU%, descending instantaneous
\* CPU%, descending resident memory, ascending pid, or non-decreasing
\* case-insensitive name.
C6_SortedByPrimaryKey ==
    \A i, j \in DOMAIN processes :
        i < j =>
            LET pa == processes[i]
                pb == processes[j]
            IN  CASE g_sort_mode = SORT_CPU_LAZY ->
                        RLe(pb.cpu_percent_lazy, pa.cpu_percent_lazy)
                  [] g_sort_mode = SORT_CPU_DIRECT ->
                        RLe(pb.cpu_percent, pa.cpu_percent)
                  [] g_sort_mode = SORT_MEM -> pb.mem_rss <= pa.mem_rss
                  [] g_sort_mode = SORT_PID -> pa.pid < pb.pid
                  [] g_sort_mode = SORT_NAME ->
                        Strcasecmp(pa.name, pb.name) <= 0

\* a full table in name order whose first entry "a" has a higher pid than
\* its last entry "B" or "b", with three different instantaneous CPU values
C6_Witness ==
    /\ g_sort_mode = SORT_NAME
    /\ Len(processes) = MaxRankPid
    /\ processes[1].name = <<97>>
    /\ processes[MaxRankPid].name \in { <<66>>, <<98>> }
    /\ processes[1].pid > processes[MaxRankPid].pid
    /\ \E i, j \in DOMAIN processes :
           RLt(processes[i].cpu_percent, Zero)
           /\ RGt(processes[j].cpu_percent, Zero)

\* ----------------------------------------------------------- layout claims
\* the panes whose flag is set
VisiblePanes ==
    (IF g_show_cpu # 0 THEN {"cpu"} ELSE {})
    \cup (IF g_show_mem # 0 THEN {"mem"} ELSE {})
    \cup (IF g_show_disks # 0 THEN {"disk"} ELSE {})
    \cup (IF g_show_net # 0 THEN {"net"} ELSE {})
    \cup (IF g_show_proc # 0 THEN {"proc"} ELSE {})
\* the rows the claim asks for a pane
RowsAsked(pane) == IF pane \in {"cpu", "proc"} THEN 5 ELSE 4
\* the last draw_screen ran on a terminal dw columns and dh rows away from
\* the minimum size of the current flags
DrawnAt(dw, dh) ==
    /\ screen.w = CalculateMinimumSize.min_w + dw
    /\ screen.h = CalculateMinimumSize.min_h + dh

\* C10: for every combination of the five pane flags, on a terminal exactly
\* of the minimum size draw_screen draws no error screen and calls the
\* drawer of every visible pane with a height that lets it draw its body
\* (CPU >= 5 rows, a side pane >= 4, the process list >= 5); on a terminal
\* one column or one row smaller it draws the error screen and no pane.
C10_MinimumSizeIsEnoughAndNeeded ==
    /\ DrawnAt(0, 0) =>
           /\ ~screen.error
           /\ \A pane \in VisiblePanes :
                  \E c \in screen.calls :
                      c.pane = pane /\ c.h >= RowsAsked(pane) /\ c.body
    /\ DrawnAt(-1, 0) \/ DrawnAt(0, -1) =>
           screen.error /\ screen.calls = {}

\* all five panes drawn on the terminal of the minimum size
C10_Witness ==
    /\ DrawnAt(0, 0)
    /\ VisiblePanes = {"cpu", "mem", "disk", "net", "proc"}
    /\ { c.pane : c \in screen.calls } = VisiblePanes

\* C11: with all five panes enabled calculate_minimum_size gives 80 columns
\* by 24 rows, and on a 40x10 terminal draw_screen draws the error screen
\* reporting 80x24 as the required size.
C11_AllPanesNeed80x24 ==
    VisiblePanes = {"cpu", "mem", "disk", "net", "proc"} =>
        /\ CalculateMinimumSize = [min_w |-> 80, min_h |-> 24]
        /\ (screen.w = 40 /\ screen.h = 10 =>
               /\ screen.error
               /\ screen.required = [min_w |-> 80, min_h |-> 24])

\* the CPU pane's call on the screen, if there is one
CpuCalls == { c \in screen.calls : c.pane = "cpu" }
\* two items share a character position
CellsOverlap(a, b) ==
    /\ a.x < b.x + b.w /\ b.x < a.x + a.w
    /\ a.y < b.y + b.h /\ b.y < a.y + a.h
\* an item lies inside the rectangle of the call c
CellInside(a, c) ==
    /\ c.x <= a.x /\ a.x + a.w <= c.x + c.w
    /\ c.y <= a.y /\ a.y + a.h <= c.y + c.h
\* no two items of the call c overlap and all lie inside its rectangle
CellsDisjointInside(c) ==
    /\ \A a, b \in c.cells : a # b => ~CellsOverlap(a, b)
    /\ \A a \in c.cells : CellInside(a, c)
\* the cores the one-line display has room for in a pane of w by h: items of
\* label width + 6 columns in the w - 2 usable columns, on the rows between
\* the graph and the pane's last row
OneLineRoom(w, h) ==
    ((w - 2) \div (CoreLabelWidth + 6)) * (h - 2 - (IF h > 8 THEN 2 ELSE 1))

\* C12 as stated: in every CPU pane a drawn layout passes to
\* draw_cpu_section on a machine of 1, 4, 16 or 64 cores, every core 0..n-1
\* is drawn in exactly one item, no two items overlap and every item lies
\* inside the pane.
C12_EveryCoreInOneCell ==
    \A c \in CpuCalls :
        /\ \A i \in 0 .. num_cores - 1 :
               Cardinality({ a \in c.cells : a.core = i }) = 1
        /\ CellsDisjointInside(c)

\* C12 amended: the cores drawn are the first min(n, room) cores, room being
\* what the one-line display can hold in the pane; each of them is drawn in
\* exactly one item, no two items overlap and every item lies inside the
\* pane.
C12_FirstCoresInOneCell ==
    \A c \in CpuCalls :
        LET room == OneLineRoom(c.w, c.h)
            drawn == IF room > num_cores THEN num_cores ELSE room
        IN  /\ \A a \in c.cells : a.core \in 0 .. drawn - 1
            /\ \A i \in 0 .. drawn - 1 :
                   Cardinality({ a \in c.cells : a.core = i }) = 1
            /\ CellsDisjointInside(c)

\* a pane with fewer items than cores, and more than one item in a row
C12_Witness ==
    \E c \in CpuCalls :
        /\ Cardinality(c.cells) < num_cores
        /\ \E a, b \in c.cells : a # b /\ a.y = b.y

\* the side panes whose flag is on, and the height draw_screen gave a pane
\* (0 when it made no call for it)
SidePanes == VisiblePanes \cap {"mem", "disk", "net"}
HeightOf(pane) ==
    IF \E c \in screen.calls : c.pane = pane
    THEN (CHOOSE c \in screen.calls : c.pane = pane).h ELSE 0

\* C18: on a drawn layout with at least one side pane visible, the heights
\* of the visible side panes (memory, disk, network) add up to the height of
\* the bottom section, whichever subset is visible.
C18_SideHeightsFillBottom ==
    ~screen.error /\ screen.h > 0 /\ SidePanes # {} =>
        HeightOf("mem") + HeightOf("disk") + HeightOf("net")
            = Heights(screen.h).bottom_height

\* C19: on a drawn layout every visible side pane is drawn with at least 4
\* rows, for every flag combination and every terminal at or above the
\* minimum size.
C19_SidePanesGetFourRows ==
    ~screen.error /\ screen.h > 0 =>
        \A pane \in SidePanes : HeightOf(pane) >= 4

\* three side panes drawn on the smallest terminal that takes them, each
\* with exactly 4 rows
C19_Witness ==
    /\ ~screen.error /\ screen.h = CalculateMinimumSize.min_h
    /\ SidePanes = {"mem", "disk", "net"}
    /\ \A pane \in SidePanes : HeightOf(pane) = 4

\* the entries of the last poll's /proc for a pid
EntriesOf(pid) ==
    { proc_in.entries[i] : i \in
        { k \in DOMAIN proc_in.entries : proc_in.entries[k].pid = pid } }
AllRead(e) == e.stat_read /\ e.status_opened /\ e.cmdline_opened

\* C20: after a poll that read /proc, a pid one of whose files (stat, status
\* or cmdline) could not be read has no entry in the table, and every entry
\* of the table has its fields from files that were read: name and state of
\* stat, resident size and owner of status, the command line of cmdline.
C20_FailedReadSkipsProcess ==
    proc_polls > 0 /\ proc_in.opened =>
        /\ \A i \in DOMAIN proc_in.entries :
               ~AllRead(proc_in.entries[i]) =>
                   proc_in.entries[i].pid \notin PidsOf(processes)
        /\ \A i \in DOMAIN processes :
               \E e \in EntriesOf(processes[i].pid) :
                   /\ AllRead(e)
                   /\ processes[i].name = e.name
                   /\ processes[i].state = e.state
                   /\ processes[i].mem_rss = e.VmRSS
                   /\ processes[i].user = GetUsername(e.Uid)
                   /\ processes[i].cmdline = NulToSpace(e.cmdline)

\* ------------------------------------------------------ claims, main loop
\* an iteration of the loop has run to its end
IterationDone == pc = "while" /\ main_iters > 0
\* ev is a sort key, a pane key
SortKeyEvent == ev.type = "TB_EVENT_KEY" /\ ev.ch = "" /\ ev.key \in SortKeys
PaneKeyEvent == ev.type = "TB_EVENT_KEY" /\ ev.ch \in PaneKeys
\* g_stats
gStats == <<history_index, overall, cores, num_cores, cpu_history,
            prev_net_rx, prev_net_tx, net_rx_speed, net_tx_speed,
            net_history_rx, net_history_tx, disks, processes, running_count,
            total_mem>>
\* the refresh interval has not passed since last_update
BeforeInterval == clock - last_update < g_refresh_rate_ms

\* C13 as stated: an iteration that handles Ctrl+F or Ctrl+B calls
\* draw_screen, and when the refresh interval has not passed since the last
\* update it does not call update_stats: at the update test the telemetry
\* state stays as it is and no call is added.
SortStepWithoutPoll ==
    /\ pc = "need_redraw" /\ SortKeyEvent => calls' = <<"draw_screen">>
    /\ pc = "refresh" /\ SortKeyEvent /\ BeforeInterval =>
           UNCHANGED gStats /\ calls' = calls
C13_SortChangeRedrawsWithoutPoll == [][SortStepWithoutPoll]_vars

\* C13 amended: an iteration that handles Ctrl+F or Ctrl+B calls
\* draw_screen, then update_stats, then draw_screen again, whether or not
\* the refresh interval has passed and whether or not the terminal is too
\* small.
C13_SortChangeRedrawsAndPolls ==
    IterationDone /\ SortKeyEvent =>
        calls = <<"draw_screen", "update_stats", "draw_screen">>

\* a sort key handled 400 ms after the previous poll, with every refresh
\* interval of the range longer than that or not
C13_Witness ==
    /\ IterationDone /\ SortKeyEvent
    /\ since_poll < g_refresh_rate_ms
    /\ calls = <<"draw_screen", "update_stats", "draw_screen">>

\* the flags with the flag of the key ch flipped
Flipped(flags, ch) ==
    [i \in 1 .. 5 |->
        IF <<"1", "2", "3", "4", "5">>[i] = ch THEN Not(flags[i])
        ELSE flags[i]]

\* C14: an iteration that handles one of the keys '1'..'5' flips the flag of
\* that key and no other, and calls draw_screen, save_settings, update_stats
\* and draw_screen in this order (the saved settings hold the new flags),
\* also when the terminal was too small as the key arrived.
C14_PaneToggleSavesAndPolls ==
    IterationDone /\ PaneKeyEvent =>
        /\ ShowFlags = Flipped(shown_before, ev.ch)
        /\ calls = <<"draw_screen", "save_settings", "update_stats",
                     "draw_screen">>
        /\ config = Settings

\* a pane key handled on a terminal that was too small, before the refresh
\* interval has passed
C14_Witness ==
    /\ IterationDone /\ PaneKeyEvent /\ in_error_mode
    /\ since_poll < g_refresh_rate_ms
    /\ ShowFlags # shown_before

\* C15: an iteration that handles a resize event calls draw_screen on the
\* new terminal; when the refresh interval has not passed since the last
\* update, the update test leaves g_stats as it is, adds no call and goes
\* back to the top of the loop.
ResizeStep ==
    /\ pc = "need_redraw" /\ ev.type = "TB_EVENT_RESIZE" =>
           /\ calls' = <<"draw_screen">>
           /\ screen'.w = ev.w /\ screen'.h = ev.h
    /\ pc = "refresh" /\ ev.type = "TB_EVENT_RESIZE" /\ BeforeInterval =>
           UNCHANGED gStats /\ calls' = calls /\ pc' = "while"
C15_ResizeRedrawsWithoutPoll == [][ResizeStep]_vars

\* a resize handled before the refresh interval has passed: the screen is
\* drawn for the new size and nothing else was called
C15_Witness ==
    /\ IterationDone /\ ev.type = "TB_EVENT_RESIZE"
    /\ clock - last_update < g_refresh_rate_ms
    /\ calls = <<"draw_screen">>
    /\ screen.w = ev.w /\ screen.h = ev.h

\* C16: the timeout given to tb_peek_event is max(0, g_refresh_rate_ms -
\* (now - last_update)), for every refresh rate load_settings takes; and an
\* iteration whose wait ended by the timeout makes the update.
C16_TimeoutIsTimeToRefresh ==
    /\ pc = "need_redraw" =>
           LET left == g_refresh_rate_ms - (now - last_update)
           IN  time_until_update = IF left < 0 THEN 0 ELSE left
    /\ IterationDone /\ ev = NoEvent => calls # <<>>

\* C17: when update_stats has run in the loop, g_elapsed_seconds is positive
\* and is the time from the previous run of update_stats to this one, in
\* seconds.
C17_ElapsedIsTimeSinceLastPoll ==
    pc = "draw_screen_again" /\ calls # <<>>
    /\ calls[Len(calls)] = "update_stats" =>
        /\ RGt(g_elapsed_seconds, Zero)
        /\ REq(g_elapsed_seconds, Rat(since_poll, 1000))

\* ------------------------------------------------------------------- C30
\* C30: after every poll the instant CPU% and the smoothed CPU% of every
\* process entry are at least 0, also when the ticks read for a pid are
\* fewer than the ticks kept for that pid from the previous poll.
C30_CpuPercentNonNegative ==
    proc_polls > 0 =>
        \A i \in DOMAIN processes :
            /\ RLe(Zero, processes[i].cpu_percent)
            /\ RLe(Zero, processes[i].cpu_percent_lazy)

\* ------------------------------------------------------------------- C25
\* the lesser of two integers
MinOf(a, b) == IF a < b THEN a ELSE b

\* C25: when draw_screen lays out the panes (no error screen) with the CPU
\* pane visible, with available = terminal height - 2 and bottom_need = 10
\* plus 3 if a side pane is visible, the CPU pane gets 5 rows when
\* available <= 5 + bottom_need and otherwise the lesser of
\* 5 + (available - 5 - bottom_need) div 4 and available div 3; it never
\* gets fewer than 5, and its height and the bottom section's height sum to
\* available.
C25_CpuPaneHeight ==
    (~screen.error /\ screen.h > 0 /\ g_show_cpu # 0) =>
        LET available == screen.h - 2
            bottom_need ==
                10 + (IF SidePanes # {} THEN 3 ELSE 0)
            expected ==
                IF available <= 5 + bottom_need THEN 5
                ELSE MinOf(5 + (available - 5 - bottom_need) \div 4,
                           available \div 3)
        IN  /\ \E c \in screen.calls :
                   c.pane = "cpu" /\ c.h = screen.cpu_height
            /\ screen.cpu_height = expected
            /\ screen.cpu_height >= 5
            /\ screen.cpu_height + screen.bottom_height = available

\* a layout in which the CPU pane has grown beyond its 5 rows, beside side
\* panes
C25_Witness ==
    /\ ~screen.error /\ screen.h > 0 /\ g_show_cpu # 0
    /\ SidePanes # {}
    /\ screen.cpu_height > 5
    /\ \E c \in screen.calls : c.pane = "cpu" /\ c.h = screen.cpu_height

\* ------------------------------------------------------------------- C26
\* two rectangles share a cell
RectsOverlap(a, b) ==
    /\ a.x < b.x + b.w /\ b.x < a.x + a.w
    /\ a.y < b.y + b.h /\ b.y < a.y + a.h

\* C26: on every terminal at or above the minimum size, for every flag
\* combination, the rectangles draw_screen passes to the pane drawers do not
\* overlap one another and lie in columns 0 .. w-1 and rows 1 .. h-2; when
\* side panes and the process list are both visible the side column is 35%
\* of w-3 and at least 18, the process list is the rest and at least 40,
\* and the two widths sum to w-3.
C26_RectanglesDisjointInside ==
    (~screen.error /\ screen.h > 0) =>
        /\ \A c \in screen.calls :
               /\ c.w > 0 /\ c.h > 0
               /\ 0 <= c.x /\ c.x + c.w - 1 <= screen.w - 1
               /\ 1 <= c.y /\ c.y + c.h - 1 <= screen.h - 2
        /\ \A a, b \in screen.calls : a # b => ~RectsOverlap(a, b)
        /\ (SidePanes # {} /\ g_show_proc # 0) =>
               LET share == ((screen.w - 3) * 35) \div 100
                   side_w == IF share < 18 THEN 18 ELSE share
               IN  /\ \A pane \in SidePanes :
                         \E c \in screen.calls :
                             c.pane = pane /\ c.w = side_w
                   /\ \E c \in screen.calls :
                         /\ c.pane = "proc"
                         /\ c.w = (screen.w - 3) - side_w
                         /\ c.w >= 40
                         /\ side_w + c.w = screen.w - 3

\* all five panes drawn, one row above the minimum height
C26_Witness ==
    /\ ~screen.error
    /\ DrawnAt(1, 1)
    /\ { c.pane : c \in screen.calls } = {"cpu", "mem", "disk", "net", "proc"}

\* ------------------------------------------------------------------- C27
\* the CPU panes drawn in the two-line display
TwoLineCalls == { c \in screen.calls : c.pane = "cpu" /\ c.two_line }
\* the most cores a row of the two-line display of pane c can take
MaxPerRow(c) ==
    LET fit == (c.w - 2) \div (CoreLabelWidth + 12)
    IN  IF fit < 1 THEN 1 ELSE fit
\* k cores in a row fit in pane c: two rows for each row of cores
Fits(c, k) ==
    2 * ((num_cores + k - 1) \div k) <= AvailableCoreRows(c.h)

\* C27: in the two-line display the chosen cores-per-row fits (it is at
\* most the maximum per-row count and its rows, two each, are at most the
\* available core rows), and whenever some per-row count between 1 and the
\* maximum fits and divides the core count, the chosen one divides the core
\* count too.
C27_TwoLineGridFitsAndPrefersEven ==
    \A c \in TwoLineCalls :
        /\ c.cores_per_row \in 1 .. MaxPerRow(c)
        /\ Fits(c, c.cores_per_row)
        /\ (\E k \in 1 .. MaxPerRow(c) : Fits(c, k) /\ num_cores % k = 0)
               => num_cores % c.cores_per_row = 0

\* a two-line display in which the most cores a row can take would leave a
\* short last row, and the chosen count leaves none
C27_Witness ==
    \E c \in TwoLineCalls :
        /\ num_cores % MaxPerRow(c) # 0
        /\ c.cores_per_row < MaxPerRow(c)
        /\ num_cores % c.cores_per_row = 0
        /\ num_cores > c.cores_per_row

\* ------------------------------------------------------------------- C28
\* the history reads of the last draw_screen
GraphsDrawn == UNION { c.graphs : c \in screen.calls }

\* C28: every history read made while drawing asks for a width of at most
\* HISTORY_SIZE and touches only the indices 0 .. HISTORY_SIZE-1 of its
\* buffer, on every terminal on which draw_screen draws panes.
C28_HistoryReadsInsideBuffer ==
    \A g \in GraphsDrawn :
        /\ g.w <= HISTORY_SIZE
        /\ DrawGraphIndices(g.idx, g.w) \subseteq 0 .. HISTORY_SIZE - 1

\* ------------------------------------------------------------------- C21
\* the line parsed with all its fields
WellFormed(l) == l.fields = 3
\* the files of the last poll without their malformed lines
NetWellFormed == SelectSeq(io_in.net, WellFormed)
\* (and without the loop, ram and dm- devices)
DiskKept(l) == l.fields = 3 /\ l.name \notin VirtualNames
DiskWellFormed == SelectSeq(io_in.dsk, DiskKept)
\* a speed of the last poll, as the totals wanted and the values retained
\* before the poll give it
SpeedFrom(total, prev_total, prev_speed) ==
    IF io_before.prev_net_rx > 0
    THEN Rat(ULL(total - prev_total), 1024) ELSE prev_speed

\* C21: a malformed input record is skipped: the network totals and speeds
\* and the disk entries a poll computes are those it would compute from the
\* same files without their malformed lines.
C21_MalformedRecordSkipped ==
    io_polls > 0 =>
        /\ prev_net_rx = NetTotals(NetWellFormed).rx
        /\ prev_net_tx = NetTotals(NetWellFormed).tx
        /\ REq(net_rx_speed,
               SpeedFrom(NetTotals(NetWellFormed).rx, io_before.prev_net_rx,
                         io_before.net_rx_speed))
        /\ REq(net_tx_speed,
               SpeedFrom(NetTotals(NetWellFormed).tx, io_before.prev_net_tx,
                         io_before.net_tx_speed))
        /\ [i \in 1 .. Len(disks) |->
               <<disks[i].name, disks[i].read_sectors,
                 disks[i].write_sectors>>]
           = [i \in 1 .. Len(DiskWellFormed) |->
               <<DiskWellFormed[i].name, DiskWellFormed[i].read_sectors,
                 DiskWellFormed[i].write_sectors>>]


\* ------------------------------------------------------------ keys claims
\* the sort keys of sort_log from the i-th on, n of them, are all key
Pressed(i, n, key) == \A k \in i .. i + n - 1 : sort_log[k].key = key

\* C24: after load_settings on a configuration file with any integers and
\* any sequence of Ctrl+F and Ctrl+B presses, g_sort_mode is one of 0..4 and
\* g_refresh_rate_ms is in 100..10000; Ctrl+F followed by Ctrl+B leaves the
\* sort mode as it was, and so do five Ctrl+F in a row
C24_SettingsStayInRange ==
    /\ g_sort_mode \in 0 .. SORT_MAX - 1
    /\ g_refresh_rate_ms >= 100 /\ g_refresh_rate_ms <= 10000
    /\ \A i \in 1 .. Len(sort_log) - 1 :
           sort_log[i].key = "TB_KEY_CTRL_F"
           /\ sort_log[i + 1].key = "TB_KEY_CTRL_B"
           => sort_log[i + 1].after = sort_log[i].before
    /\ \A i \in 1 .. Len(sort_log) - 4 :
           Pressed(i, 5, "TB_KEY_CTRL_F")
           => sort_log[i + 4].after = sort_log[i].before

\* five Ctrl+F have been handled after a configuration file whose sort_mode
\* and refresh_rate were both out of range
C24_Witness ==
    /\ Len(sort_log) = 5
    /\ Pressed(1, 5, "TB_KEY_CTRL_F")
    /\ config.sort_mode = SORT_MAX
    /\ config.refresh_rate > 10000
    /\ g_sort_mode = SORT_CPU_LAZY
    /\ g_refresh_rate_ms = REFRESH_RATE_MS


\* the process array is in the order of the sort mode named name
OrderedAs(name) ==
    \A i, j \in DOMAIN processes :
        i < j =>
            LET pa == processes[i]
                pb == processes[j]
            IN  CASE name = "CPU-L" ->
                        RLe(pb.cpu_percent_lazy, pa.cpu_percent_lazy)
                  [] name = "CPU-D" -> RLe(pb.cpu_percent, pa.cpu_percent)
                  [] name = "Mem" -> pb.mem_rss <= pa.mem_rss
                  [] name = "PID" -> pa.pid < pb.pid
                  [] name = "Name" -> Strcasecmp(pa.name, pb.name) <= 0

\* C29: whenever draw_screen has just rendered the process list, the process
\* array is in the order of the sort mode whose name the status line of the
\* list shows
C29_ListOrderedAsStatusLineSays ==
    Len(calls) > 0 /\ calls[Len(calls)] = "draw_screen" =>
        \A c \in screen.calls :
            c.pane = "proc" /\ c.body => OrderedAs(c.sort_name)


\* ------------------------------------------------------- selection claims
\* main has just handled the movement key key
JustMoved(key) ==
    /\ pc = "need_redraw"
    /\ ev.type = "TB_EVENT_KEY" /\ ev.ch = "" /\ ev.key = key
    /\ ~in_error_mode /\ g_show_proc # 0

\* draw_screen has just returned
JustDrawn == Len(calls) > 0 /\ calls[Len(calls)] = "draw_screen"

\* C23: after any polls and movement keys, g_selected_process is not
\* negative and is below process_count when there is a process; End selects
\* the last process; and draw_process_list reads no entry of the process
\* array outside 0 .. process_count - 1
C23_SelectionIsValidIndex ==
    /\ g_selected_process >= 0
    /\ Len(processes) > 0 => g_selected_process < Len(processes)
    /\ JustMoved("TB_KEY_END") /\ Len(processes) > 0
       => g_selected_process = Len(processes) - 1
    /\ JustDrawn =>
           \A c \in screen.calls :
               c.pane = "proc" => c.rows \subseteq 0 .. Len(processes) - 1


\* ---------------------------------------------------------- failure claims
\* update_stats runs in this step
Polled == proc_polls' = proc_polls + 1

\* the values update_stats derives from each source
CpuDerived == <<overall, cores, num_cores>>
NetDerived == <<net_rx_speed, net_tx_speed, prev_net_rx, prev_net_tx>>
ProcDerived == <<processes, running_count>>

\* what each source that was opened has left behind in this step: a percent
\* from /proc/stat, MemTotal, the totals of /proc/net/dev, the disks of
\* /proc/diskstats and the pids of /proc
Processed(name) ==
    CASE name = "stat" ->
            /\ Len(cpu_written') = Len(cpu_written) + 1
            /\ num_cores' = Cardinality({ i \in DOMAIN cpu_in' :
                                            cpu_in'[i].core >= 0 })
      [] name = "meminfo" -> total_mem' = MemTotalKb
      [] name = "net" ->
            /\ prev_net_rx' = NetTotals(io_in'.net).rx
            /\ prev_net_tx' = NetTotals(io_in'.net).tx
      [] name = "dsk" ->
            [i \in DOMAIN disks' |->
                <<disks'[i].name, disks'[i].read_sectors>>]
            = [i \in DOMAIN io_in'.dsk |->
                <<io_in'.dsk[i].name, io_in'.dsk[i].read_sectors>>]
      [] name = "dir" ->
            PidsOf(processes')
            = { proc_in'.entries[i].pid : i \in DOMAIN proc_in'.entries }

\* C22: in an update_stats that cannot open a source, the values derived
\* from that source stay as they were, every source that can be opened is
\* processed, and g_running stays set; g_running is only ever cleared as
\* main handles a quit key
C22_UnopenedSourceKeepsValues ==
    [][/\ Polled =>
            /\ "stat" \in unopened' => CpuDerived' = CpuDerived
            /\ "meminfo" \in unopened' => total_mem' = total_mem
            /\ "net" \in unopened' => NetDerived' = NetDerived
            /\ "dsk" \in unopened' => disks' = disks
            /\ "dir" \in unopened' => ProcDerived' = ProcDerived
            /\ \A name \in Sources \ unopened' : Processed(name)
            /\ g_running' = g_running
       /\ g_running' # g_running =>
            /\ g_running' = 0
            /\ pc = "while"
            /\ ev'.type = "TB_EVENT_KEY" /\ ev'.ch \in QuitKeys]_vars

\* the update after two good ones could not read /proc/net/dev alone: the
\* speeds of the update before are still held, the CPU percentage and the
\* process list are of this update, and main goes on
C22_Witness ==
    /\ unopened = {"net"}
    /\ proc_polls = 3
    /\ ~RIsZero(net_rx_speed)
    /\ REq(net_rx_speed, io_before.net_rx_speed)
    /\ prev_net_rx = io_before.prev_net_rx
    /\ Len(processes) = 2
    /\ g_running = 1
    /\ pc = "draw_screen_again"

====
